---- MODULE Spec2Model ----
(***************************************************************************)
(* A model of caddy-etcd's storage service (etcdsrv): Store / Load /       *)
(* Delete / Metadata / List over the data and metadata nodes of a key, the *)
(* commit/rollback pipeline they run on and its retries, the per-key       *)
(* advisory lock, and the Caddyfile loader.                                *)
(* The etcd v2 key space is a tree of nodes; every call of the service is  *)
(* a sequence of single-node reads and writes against it.                  *)
(***************************************************************************)
EXTENDS Integers, Sequences, FiniteSets, TLC

VARIABLES
    store,    \* the etcd key space: node path -> node
    now,      \* the clock
    last,     \* the latest call of the service and what it returned
    procs,    \* the calls in progress of the concurrent clients
    overlap,  \* the keys on which two calls of concurrent clients overlapped
    acq,      \* the Lock calls in progress of the concurrent clients
    run,      \* a run of pipeline: its arguments and what it did
    boot      \* the call of the Caddyfile loader: its configuration and result

vars == <<store, now, last, procs, overlap, acq, run, boot>>

(***************************************************************************)
(* Bounds of the model.                                                    *)
(***************************************************************************)
\* longest payload handed to Store or written out-of-band
MaxLen == 2
\* last instant of the clock
MaxTime == 4
\* longest list of commits and of rollbacks handed to pipeline on its own
MaxOps == 3
\* the time after which the exponential backoff gives up, in clock ticks
MaxElapsedTime == 3
\* the configured lock timeout (ClusterConfig.LockTimeout), in clock ticks
LockTimeout == 2

(***************************************************************************)
(* Keys, payloads, tokens.                                                 *)
(***************************************************************************)
\* logical keys: "/a" and "/a/b" as sequences of path segments; one is a
\* directory of the other, so a key can meet a directory at its own path
Keys == {<<"a">>, <<"a", "b">>}

RECURSIVE Repeat(_, _)
Repeat(b, n) == IF n = 0 THEN <<>> ELSE <<b>> \o Repeat(b, n - 1)

\* the payloads: "", "v", "vv", ... (118 is the byte 'v')
Payloads == {Repeat(118, n) : n \in 0..MaxLen}

Tokens == {"A", "B"}

(***************************************************************************)
(* Paths of the key space.                                                 *)
(***************************************************************************)
KeyPrefix == <<"caddy">>

mdPrefix == KeyPrefix \o <<"md">>

lockKey == KeyPrefix \o <<"lock">>

storageKey(key) == KeyPrefix \o key

storageKeyMD(key) == mdPrefix \o key

lockPath(key) == lockKey \o key

Prefixes(p) == {SubSeq(p, 1, n) : n \in 1..Len(p)}

ProperPrefixes(p) == {SubSeq(p, 1, n) : n \in 1..(Len(p) - 1)}

IsPrefix(p, q) == Len(p) <= Len(q) /\ SubSeq(q, 1, Len(p)) = p

NodePaths ==
    UNION {Prefixes(storageKey(k)) \cup Prefixes(storageKeyMD(k))
             \cup Prefixes(lockPath(k)) : k \in Keys}

\* strings.TrimPrefix on a path
TrimPrefix(s, prefix) ==
    IF IsPrefix(prefix, s) THEN SubSeq(s, Len(prefix) + 1, Len(s)) ELSE s

(***************************************************************************)
(* encoding/base64, StdEncoding: sextets 0..63, 64 is the padding '='.     *)
(***************************************************************************)
Pad == 64

RECURSIVE EncodeToString(_)
EncodeToString(b) ==
    IF Len(b) = 0 THEN <<>>
    ELSE IF Len(b) = 1 THEN
        <<b[1] \div 4, (b[1] % 4) * 16, Pad, Pad>>
    ELSE IF Len(b) = 2 THEN
        <<b[1] \div 4, (b[1] % 4) * 16 + (b[2] \div 16), (b[2] % 16) * 4, Pad>>
    ELSE
        <<b[1] \div 4, (b[1] % 4) * 16 + (b[2] \div 16),
          (b[2] % 16) * 4 + (b[3] \div 64), b[3] % 64>>
          \o EncodeToString(SubSeq(b, 4, Len(b)))

\* [ok, bytes]: the decoded bytes, or ok = FALSE on corrupt input
RECURSIVE DecodeString(_)
DecodeString(s) ==
    IF Len(s) = 0 THEN [ok |-> TRUE, bytes |-> <<>>]
    ELSE IF Len(s) < 4 \/ s[1] = Pad \/ s[2] = Pad THEN [ok |-> FALSE, bytes |-> <<>>]
    ELSE LET b1 == s[1] * 4 + (s[2] \div 16)
             b2 == (s[2] % 16) * 16 + (s[3] \div 4)
             b3 == (s[3] % 4) * 64 + s[4]
         IN  IF s[3] = Pad THEN
                 IF s[4] = Pad /\ Len(s) = 4
                 THEN [ok |-> TRUE, bytes |-> <<b1>>]
                 ELSE [ok |-> FALSE, bytes |-> <<>>]
             ELSE IF s[4] = Pad THEN
                 IF Len(s) = 4
                 THEN [ok |-> TRUE, bytes |-> <<b1, b2>>]
                 ELSE [ok |-> FALSE, bytes |-> <<>>]
             ELSE LET rest == DecodeString(SubSeq(s, 5, Len(s)))
                  IN  [ok |-> rest.ok,
                       bytes |-> IF rest.ok THEN <<b1, b2, b3>> \o rest.bytes ELSE <<>>]

(***************************************************************************)
(* crypto/sha1: the digest of a payload.  SHA-1 itself is not computed;    *)
(* the digest is an Adler-style checksum, a function of the bytes alone    *)
(* that is injective on the payloads of the model.                         *)
(***************************************************************************)
RECURSIVE AdlerA(_)
AdlerA(b) == IF Len(b) = 0 THEN 1 ELSE (AdlerA(SubSeq(b, 1, Len(b) - 1)) + b[Len(b)]) % 65521

RECURSIVE AdlerB(_)
AdlerB(b) == IF Len(b) = 0 THEN 0 ELSE (AdlerB(SubSeq(b, 1, Len(b) - 1)) + AdlerA(b)) % 65521

sha1Sum(data) == AdlerB(data) * 65536 + AdlerA(data)

\* the zero value of [20]byte
ZeroHash == 0

\* the zero value of time.Time
ZeroTime == 0

(***************************************************************************)
(* Metadata and its JSON document.                                         *)
(***************************************************************************)
ZeroMetadata ==
    [Path |-> <<>>, Size |-> 0, Timestamp |-> ZeroTime, Hash |-> ZeroHash, IsDir |-> FALSE]

\* NewMetadata leaving the hash unset
NewMetadataNoHash(key, data, t) ==
    [Path |-> key, Size |-> Len(data), Timestamp |-> t, Hash |-> ZeroHash,
     IsDir |-> FALSE]

\* NewMetadata setting the directory flag
NewMetadataAsDir(key, data, t) ==
    [Path |-> key, Size |-> Len(data), Timestamp |-> t, Hash |-> sha1Sum(data),
     IsDir |-> TRUE]

NewMetadata(key, data, t) ==
    [Path |-> key, Size |-> Len(data), Timestamp |-> t, Hash |-> sha1Sum(data),
     IsDir |-> FALSE]

\* The text held by a node.  A payload is stored as its base64 text; a
\* metadata or lock record as base64.StdEncoding.EncodeToString(json.Marshal(.)),
\* kept as the document it encodes.
RawText(sextets) == [enc |-> "raw", txt |-> sextets]

MarshalMD(m) == [enc |-> "Metadata", txt |-> m]

MarshalLock(l) == [enc |-> "Lock", txt |-> l]

\* base64-decode the text of a node, as get does: [ok, bytes].  The JSON text
\* of a record decodes to bytes that are no payload of the model.
DecodeText(v) ==
    IF v.enc = "raw" THEN DecodeString(v.txt) ELSE [ok |-> TRUE, bytes |-> <<0>>]

(***************************************************************************)
(* The etcd v2 key space (client.KeysAPI): a tree of directory and value   *)
(* nodes.  Every operation returns [code, ...]; code "ok" or the etcd      *)
(* error.                                                                  *)
(***************************************************************************)
Absent == [kind |-> "none", value |-> RawText(<<>>)]

DirNode == [kind |-> "dir", value |-> RawText(<<>>)]

FileNode(v) == [kind |-> "file", value |-> v]

UnderFile(st, p) == \E q \in ProperPrefixes(p) : st[q].kind = "file"

\* cli.Get(ctx, key, nil)
EtcdGet(st, p) ==
    IF UnderFile(st, p) THEN [code |-> "NotDir", node |-> Absent]
    ELSE IF st[p].kind = "none" THEN [code |-> "KeyNotFound", node |-> Absent]
    ELSE [code |-> "ok", node |-> st[p]]

\* cli.Set(ctx, key, value, nil): upsert, creating the missing directories
EtcdSet(st, p, v) ==
    IF UnderFile(st, p) THEN [code |-> "NotDir", st |-> st]
    ELSE IF st[p].kind = "dir" THEN [code |-> "NotFile", st |-> st]
    ELSE [code |-> "ok",
          st |-> [q \in DOMAIN st |->
                    IF q = p THEN FileNode(v)
                    ELSE IF q \in ProperPrefixes(p) /\ st[q].kind = "none" THEN DirNode
                    ELSE st[q]]]

\* a Delete that answers a missing key as a success
EtcdDeleteIdempotent(st, p) ==
    IF UnderFile(st, p) THEN [code |-> "NotDir", st |-> st]
    ELSE IF st[p].kind = "none" THEN [code |-> "ok", st |-> st]
    ELSE IF st[p].kind = "dir" THEN [code |-> "NotFile", st |-> st]
    ELSE [code |-> "ok", st |-> [st EXCEPT ![p] = Absent]]

\* cli.Delete(ctx, key, nil): a value node only; its directories stay
EtcdDelete(st, p) ==
    IF UnderFile(st, p) THEN [code |-> "NotDir", st |-> st]
    ELSE IF st[p].kind = "none" THEN [code |-> "KeyNotFound", st |-> st]
    ELSE IF st[p].kind = "dir" THEN [code |-> "NotFile", st |-> st]
    ELSE [code |-> "ok", st |-> [st EXCEPT ![p] = Absent]]

\* only the value nodes directly under p
LeavesOfChildren(st, p) ==
    {q \in DOMAIN st : IsPrefix(p, q) /\ Len(q) = Len(p) + 1 /\ st[q].kind = "file"}

\* the value nodes of the subtree rooted at p, as walkNodes collects them
\* (directories are skipped by the caller)
Leaves(st, p) == {q \in DOMAIN st : IsPrefix(p, q) /\ st[q].kind = "file"}

(***************************************************************************)
(* The retryable operations.  An operation is the closure the code builds: *)
(* its kind and the arguments it captured when it was built.  Running it   *)
(* gives [ok, st, env]; env holds the destinations the closures write to   *)
(* (valPrev, mdPrev).                                                      *)
(***************************************************************************)
Op(kind, key, val, md) == [op |-> kind, key |-> key, val |-> val, md |-> md]

get(key) == Op("get", key, <<>>, ZeroMetadata)

getMDOp(key) == Op("getMD", key, <<>>, ZeroMetadata)

set(key, value) == Op("set", key, value, ZeroMetadata)

setMD(key, m) == Op("setMD", key, <<>>, m)

del(key) == Op("del", key, <<>>, ZeroMetadata)

noop == Op("noop", <<>>, <<>>, ZeroMetadata)

EmptyEnv == [valPrev |-> <<>>, mdPrev |-> ZeroMetadata]

\* json.Unmarshal of a node's decoded text into m: [ok, m].  A payload of the
\* model is no JSON document; a Lock document has no field of Metadata.
unmarshalMD(v, m) ==
    IF v.enc = "Metadata" THEN [ok |-> TRUE, m |-> v.txt]
    ELSE IF v.enc = "Lock" THEN [ok |-> TRUE, m |-> m]
    ELSE [ok |-> FALSE, m |-> m]

RECURSIVE SumSize(_, _)
SumSize(st, S) ==
    IF S = {} THEN 0
    ELSE LET q == CHOOSE x \in S : TRUE
         IN  unmarshalMD(st[q].value, ZeroMetadata).m.Size + SumSize(st, S \ {q})

RECURSIVE MaxTimestamp(_, _)
MaxTimestamp(st, S) ==
    IF S = {} THEN ZeroTime
    ELSE LET q == CHOOSE x \in S : TRUE
             t == unmarshalMD(st[q].value, ZeroMetadata).m.Timestamp
             r == MaxTimestamp(st, S \ {q})
         IN  IF t > r THEN t ELSE r

\* getMD: [ok, m].  A directory gives the aggregate of its value nodes.
getMD(st, key, m) ==
    LET resp == EtcdGet(st, key)
    IN  IF resp.code # "ok" THEN [ok |-> FALSE, m |-> m]
        ELSE IF resp.node.kind = "dir" THEN
            LET leaves == Leaves(st, key)
                dirM == [m EXCEPT !.Path = key, !.IsDir = TRUE]
            IN  IF \E q \in leaves : ~unmarshalMD(st[q].value, ZeroMetadata).ok
                THEN [ok |-> FALSE, m |-> dirM]
                ELSE [ok |-> TRUE,
                      m |-> [dirM EXCEPT
                               !.Size = m.Size + SumSize(st, leaves),
                               !.Timestamp =
                                   IF MaxTimestamp(st, leaves) > m.Timestamp
                                   THEN MaxTimestamp(st, leaves) ELSE m.Timestamp]]
        ELSE unmarshalMD(resp.node.value, m)

\* exists as an earlier revision had it: a missing key is an error
existsNotFoundIsError(st, key) ==
    LET resp == EtcdGet(st, key)
    IN  IF resp.code # "ok" THEN [ok |-> FALSE, out |-> FALSE]
        ELSE [ok |-> TRUE, out |-> TRUE]

\* exists: [ok, out]
exists(st, key) ==
    LET resp == EtcdGet(st, key)
    IN  IF resp.code = "KeyNotFound" THEN [ok |-> TRUE, out |-> FALSE]
        ELSE IF resp.code # "ok" THEN [ok |-> FALSE, out |-> FALSE]
        ELSE [ok |-> TRUE, out |-> TRUE]

\* one run of an operation
ExecOp(o, st, env) ==
    IF o.op = "get" THEN
        LET resp == EtcdGet(st, o.key)
            b == DecodeText(resp.node.value)
        IN  IF resp.code = "KeyNotFound" THEN [ok |-> TRUE, st |-> st, env |-> env]
            ELSE IF resp.code # "ok" \/ ~b.ok THEN [ok |-> FALSE, st |-> st, env |-> env]
            ELSE [ok |-> TRUE, st |-> st,
                  env |-> [env EXCEPT !.valPrev = env.valPrev \o b.bytes]]
    ELSE IF o.op = "getMD" THEN
        LET r == getMD(st, o.key, env.mdPrev)
        IN  [ok |-> r.ok, st |-> st, env |-> [env EXCEPT !.mdPrev = r.m]]
    ELSE IF o.op = "set" THEN
        LET r == EtcdSet(st, o.key, RawText(EncodeToString(o.val)))
        IN  [ok |-> r.code = "ok", st |-> r.st, env |-> env]
    ELSE IF o.op = "setMD" THEN
        LET r == EtcdSet(st, o.key, MarshalMD(o.md))
        IN  [ok |-> r.code = "ok", st |-> r.st, env |-> env]
    ELSE IF o.op = "del" THEN
        LET r == EtcdDelete(st, o.key)
        IN  [ok |-> r.code = "ok", st |-> r.st, env |-> env]
    ELSE [ok |-> TRUE, st |-> st, env |-> env]

(***************************************************************************)
(* pipeline.  Sequences are 1-based: commit i here is index i-1 of the     *)
(* code.  f names the store failures of the run: f.c is the commit and f.r *)
(* the rollback (0: none) that the store fails for every retry; a noop,    *)
(* which never calls the store, cannot fail.                               *)
(***************************************************************************)
NoFail == [ex |-> FALSE, c |-> 0, r |-> 0]

\* errors as values: the error of a commit, and errors.Wrapf(err, "error on
\* rollback: %s", errR), which keeps err and adds the text of errR
NilError == <<>>

CommitError(idx) == <<[at |-> "commit", idx |-> idx]>>

RollbackError(i) == [at |-> "rollback", idx |-> i]

Wrapf(err, errR) == Append(err, errR)

\* the inner loop ending one index early (i > 0 for i >= 0)
RECURSIVE unwindStopsEarly(_, _, _, _)
unwindStopsEarly(i, rollbacks, f, acc) ==
    IF i < 2 THEN acc
    ELSE IF i > Len(rollbacks) THEN unwindStopsEarly(i - 1, rollbacks, f, acc)
    ELSE LET r == IF f.r = i /\ rollbacks[i].op # "noop"
                  THEN [ok |-> FALSE, st |-> acc.st, env |-> acc.env]
                  ELSE ExecOp(rollbacks[i], acc.st, acc.env)
         IN  unwindStopsEarly(i - 1, rollbacks, f,
                    [acc EXCEPT !.st = r.st, !.env = r.env,
                                !.rbRun = Append(acc.rbRun, i),
                                !.rbFailed = IF r.ok THEN acc.rbFailed
                                             ELSE acc.rbFailed \cup {i},
                                !.err = IF r.ok THEN acc.err
                                        ELSE Wrapf(acc.err, RollbackError(i))])

\* the inner loop running the rollbacks in the order of the list
RECURSIVE unwindAscending(_, _, _, _)
unwindAscending(i, rollbacks, f, acc) ==
    IF i < 1 THEN acc
    ELSE IF i > Len(rollbacks) THEN unwindAscending(i - 1, rollbacks, f, acc)
    ELSE LET prev == unwindAscending(i - 1, rollbacks, f, acc)
             r == IF f.r = i /\ rollbacks[i].op # "noop"
                  THEN [ok |-> FALSE, st |-> prev.st, env |-> prev.env]
                  ELSE ExecOp(rollbacks[i], prev.st, prev.env)
         IN  [prev EXCEPT !.st = r.st, !.env = r.env,
                          !.rbRun = Append(prev.rbRun, i),
                          !.rbFailed = IF r.ok THEN prev.rbFailed
                                       ELSE prev.rbFailed \cup {i},
                          !.err = IF r.ok THEN prev.err
                                  ELSE Wrapf(prev.err, RollbackError(i))]

\* the inner loop giving up at an index the rollback list does not have
RECURSIVE unwindShortAborts(_, _, _, _)
unwindShortAborts(i, rollbacks, f, acc) ==
    IF i < 1 \/ i > Len(rollbacks) THEN acc
    ELSE LET r == IF f.r = i /\ rollbacks[i].op # "noop"
                  THEN [ok |-> FALSE, st |-> acc.st, env |-> acc.env]
                  ELSE ExecOp(rollbacks[i], acc.st, acc.env)
         IN  unwindShortAborts(i - 1, rollbacks, f,
                    [acc EXCEPT !.st = r.st, !.env = r.env,
                                !.rbRun = Append(acc.rbRun, i),
                                !.rbFailed = IF r.ok THEN acc.rbFailed
                                             ELSE acc.rbFailed \cup {i},
                                !.err = IF r.ok THEN acc.err
                                        ELSE Wrapf(acc.err, RollbackError(i))])

\* the inner loop ending at the first rollback that fails
RECURSIVE unwindStopsOnError(_, _, _, _)
unwindStopsOnError(i, rollbacks, f, acc) ==
    IF i < 1 THEN acc
    ELSE IF i > Len(rollbacks) THEN unwindStopsOnError(i - 1, rollbacks, f, acc)
    ELSE LET r == IF f.r = i /\ rollbacks[i].op # "noop"
                  THEN [ok |-> FALSE, st |-> acc.st, env |-> acc.env]
                  ELSE ExecOp(rollbacks[i], acc.st, acc.env)
         IN  IF r.ok
             THEN unwindStopsOnError(i - 1, rollbacks, f,
                    [acc EXCEPT !.st = r.st, !.env = r.env,
                                !.rbRun = Append(acc.rbRun, i),
                                !.rbFailed = IF r.ok THEN acc.rbFailed
                                             ELSE acc.rbFailed \cup {i},
                                !.err = IF r.ok THEN acc.err
                                        ELSE Wrapf(acc.err, RollbackError(i))])
             ELSE [acc EXCEPT !.st = r.st, !.env = r.env,
                  !.rbRun = Append(acc.rbRun, i),
                  !.rbFailed = IF r.ok THEN acc.rbFailed
                               ELSE acc.rbFailed \cup {i},
                  !.err = IF r.ok THEN acc.err
                          ELSE Wrapf(acc.err, RollbackError(i))]

\* the inner loop: rollbacks i, i-1, .., 1 of a failed run
RECURSIVE unwind(_, _, _, _)
unwind(i, rollbacks, f, acc) ==
    IF i < 1 THEN acc
    ELSE IF i > Len(rollbacks) THEN unwind(i - 1, rollbacks, f, acc)
    ELSE LET r == IF f.r = i /\ rollbacks[i].op # "noop"
                  THEN [ok |-> FALSE, st |-> acc.st, env |-> acc.env]
                  ELSE ExecOp(rollbacks[i], acc.st, acc.env)
         IN  unwind(i - 1, rollbacks, f,
                    [acc EXCEPT !.st = r.st, !.env = r.env,
                                !.rbRun = Append(acc.rbRun, i),
                                !.rbFailed = IF r.ok THEN acc.rbFailed
                                             ELSE acc.rbFailed \cup {i},
                                !.err = IF r.ok THEN acc.err
                                        ELSE Wrapf(acc.err, RollbackError(i))])

\* the outer loop without its break: the commits after a failed one run too
RECURSIVE commitFromContinues(_, _, _, _, _)
commitFromContinues(idx, commits, rollbacks, f, acc) ==
    IF idx > Len(commits) THEN acc
    ELSE LET r == IF f.c = idx /\ commits[idx].op # "noop"
                  THEN [ok |-> FALSE, st |-> acc.st, env |-> acc.env]
                  ELSE ExecOp(commits[idx], acc.st, acc.env)
             ran == [acc EXCEPT !.st = r.st, !.env = r.env,
                                !.ran = Append(acc.ran, idx)]
         IN  IF r.ok THEN commitFromContinues(idx + 1, commits, rollbacks, f, ran)
             ELSE commitFromContinues(idx + 1, commits, rollbacks, f,
                    unwind(idx - 1, rollbacks, f,
                           [ran EXCEPT !.failedAt = idx, !.err = CommitError(idx)]))

\* the outer loop returning nil when every rollback succeeded
RECURSIVE commitFromForgives(_, _, _, _, _)
commitFromForgives(idx, commits, rollbacks, f, acc) ==
    IF idx > Len(commits) THEN acc
    ELSE LET r == IF f.c = idx /\ commits[idx].op # "noop"
                  THEN [ok |-> FALSE, st |-> acc.st, env |-> acc.env]
                  ELSE ExecOp(commits[idx], acc.st, acc.env)
             ran == [acc EXCEPT !.st = r.st, !.env = r.env,
                                !.ran = Append(acc.ran, idx)]
             u == unwind(idx - 1, rollbacks, f,
                         [ran EXCEPT !.failedAt = idx, !.err = CommitError(idx)])
         IN  IF r.ok THEN commitFromForgives(idx + 1, commits, rollbacks, f, ran)
             ELSE IF u.rbFailed = {} THEN [u EXCEPT !.err = NilError] ELSE u

\* the outer loop, from commit idx on
RECURSIVE commitFrom(_, _, _, _, _)
commitFrom(idx, commits, rollbacks, f, acc) ==
    IF idx > Len(commits) THEN acc
    ELSE LET r == IF f.c = idx /\ commits[idx].op # "noop"
                  THEN [ok |-> FALSE, st |-> acc.st, env |-> acc.env]
                  ELSE ExecOp(commits[idx], acc.st, acc.env)
             ran == [acc EXCEPT !.st = r.st, !.env = r.env,
                                !.ran = Append(acc.ran, idx)]
         IN  IF r.ok THEN commitFrom(idx + 1, commits, rollbacks, f, ran)
             ELSE unwind(idx - 1, rollbacks, f,
                         [ran EXCEPT !.failedAt = idx, !.err = CommitError(idx)])

\* pipeline unwinding after the last commit of a run without failure
pipelineUnwindsAlways(commits, rollbacks, st, f) ==
    LET res == commitFrom(1, commits, rollbacks, f,
                          [st |-> st, env |-> EmptyEnv, ran |-> <<>>, failedAt |-> 0,
                           rbRun |-> <<>>, rbFailed |-> {}, err |-> NilError])
    IN  IF res.failedAt = 0 THEN unwind(Len(commits), rollbacks, f, res) ELSE res

\* [st, env, ran, failedAt, rbRun, rbFailed, err]: err is the error returned,
\* ran and rbRun are the commits and the rollbacks invoked, in the order of
\* their invocation
pipeline(commits, rollbacks, st, f) ==
    commitFrom(1, commits, rollbacks, f,
               [st |-> st, env |-> EmptyEnv, ran |-> <<>>, failedAt |-> 0,
                rbRun |-> <<>>, rbFailed |-> {}, err |-> NilError])

(***************************************************************************)
(* The record of the latest call: what was called and what it returned.    *)
(* err is "nil" or the kind of the error returned; inj tells that the      *)
(* store was made to fail during the call; held is the lock record an      *)
(* acquire read.                                                           *)
(***************************************************************************)
NilBytes == [isNil |-> TRUE, bytes |-> <<>>]

Bytes(b) == [isNil |-> Len(b) = 0, bytes |-> b]

NilMD == [isNil |-> TRUE, md |-> ZeroMetadata]

Lock(tok, t, key) == [Token |-> tok, Obtained |-> t, Key |-> key]

ZeroLock == [Token |-> "", Obtained |-> ZeroTime, Key |-> <<>>]

NoCall ==
    [op |-> "init", key |-> <<>>, arg |-> <<>>, tok |-> "", inj |-> FALSE,
     ex |-> FALSE, failedAt |-> 0, rbFailed |-> {}, held |-> ZeroLock,
     err |-> "nil", errKey |-> <<>>, val |-> NilBytes, md |-> NilMD,
     filters |-> <<>>, ord |-> "", out |-> <<>>]

\* the existence check fails, or commit c fails and with it, or not, the
\* rollback before it
FailPlans ==
    {f \in [ex : BOOLEAN, c : 0..4, r : 0..3] :
        /\ f.ex => (f.c = 0 /\ f.r = 0)
        /\ f.r # 0 => f.r = f.c - 1}

\* the failures a call of n store operations after the existence check can meet
ReadFails(n) == {f \in FailPlans : f.c <= n /\ f.r = 0}

(***************************************************************************)
(* etcdsrv.Store                                                           *)
(***************************************************************************)
\* a Store that writes the payload and leaves the metadata as it was
StoreCommitsStaleMD(key, value, md, ex) ==
    IF ex
    THEN <<get(storageKey(key)), getMDOp(storageKeyMD(key)),
           set(storageKey(key), value), noop>>
    ELSE <<set(storageKey(key), value), setMD(storageKeyMD(key), md)>>

\* the commits of Store, given the answer ex of the existence check
StoreCommits(key, value, md, ex) ==
    IF ex
    THEN <<get(storageKey(key)), getMDOp(storageKeyMD(key)),
           set(storageKey(key), value), setMD(storageKeyMD(key), md)>>
    ELSE <<set(storageKey(key), value), setMD(storageKeyMD(key), md)>>

\* a Store that undoes nothing
StoreRollsBackNothing(key, ex) == <<>>

\* the rollbacks of Store with a no-op for the first read step only
StoreRollbacksOneNoop(key, ex) ==
    IF ex
    THEN <<noop, set(storageKey(key), EmptyEnv.valPrev),
           setMD(storageKeyMD(key), EmptyEnv.mdPrev)>>
    ELSE <<del(storageKey(key)), del(storageKeyMD(key))>>

\* the rollbacks of Store.  valPrev.Bytes() and *mdPrev are read when the
\* rollbacks are built, before any commit has run: the closures hold the
\* empty buffer and the zero Metadata.
StoreRollbacks(key, ex) ==
    IF ex
    THEN <<noop, noop, set(storageKey(key), EmptyEnv.valPrev),
           setMD(storageKeyMD(key), EmptyEnv.mdPrev)>>
    ELSE <<del(storageKey(key)), del(storageKeyMD(key))>>

\* a Store that gives up when the lock node of the key holds a record
StoreCallUnderLock(st, key, value, t, f) ==
    LET md == NewMetadata(key, value, t)
        e == IF f.ex \/ st[lockPath(key)].kind = "file"
             THEN [ok |-> FALSE, out |-> FALSE]
             ELSE exists(st, storageKeyMD(key))
    IN  [ok |-> e.ok, ex |-> e.out,
         res |-> pipeline(StoreCommits(key, value, md, e.out),
                          StoreRollbacks(key, e.out), st, f)]

\* a Store that takes a failed existence check for a key that does not exist
StoreCallIgnoresExistsError(st, key, value, t, f) ==
    LET md == NewMetadata(key, value, t)
        e == IF f.ex \/ ~exists(st, storageKeyMD(key)).ok
             THEN [ok |-> TRUE, out |-> FALSE]
             ELSE exists(st, storageKeyMD(key))
    IN  [ok |-> e.ok, ex |-> e.out,
         res |-> pipeline(StoreCommits(key, value, md, e.out),
                          StoreRollbacks(key, e.out), st, f)]

\* [ok, ex, res]: ok = FALSE when the existence check failed
StoreCall(st, key, value, t, f) ==
    LET md == NewMetadata(key, value, t)
        e == IF f.ex THEN [ok |-> FALSE, out |-> FALSE]
             ELSE exists(st, storageKeyMD(key))
    IN  [ok |-> e.ok, ex |-> e.out,
         res |-> pipeline(StoreCommits(key, value, md, e.out),
                          StoreRollbacks(key, e.out), st, f)]

Store(key, value, f) ==
    \E c \in {StoreCall(store, key, value, now, f)} :
        /\ store' = IF c.ok THEN c.res.st ELSE store
        /\ last' = [NoCall EXCEPT
                      !.op = "Store", !.key = key, !.arg = value, !.inj = (f # NoFail),
                      !.ex = c.ex,
                      !.failedAt = IF c.ok THEN c.res.failedAt ELSE 0,
                      !.rbFailed = IF c.ok THEN c.res.rbFailed ELSE {},
                      !.err = IF ~c.ok THEN "store"
                              ELSE IF c.res.failedAt # 0 THEN "pipeline"
                              ELSE "nil"]
        /\ UNCHANGED <<now, procs, overlap, acq, run, boot>>

(***************************************************************************)
(* etcdsrv.Load                                                            *)
(***************************************************************************)
\* Load without the comparison of the digest
LoadCallNoChecksum(st, key, f) ==
    LET e == IF f.ex THEN [ok |-> FALSE, out |-> FALSE]
             ELSE exists(st, storageKeyMD(key))
        m == IF f.c = 1 THEN [ok |-> FALSE, m |-> ZeroMetadata]
             ELSE getMD(st, storageKeyMD(key), ZeroMetadata)
        d == IF f.c = 2 THEN [ok |-> FALSE, st |-> st, env |-> EmptyEnv]
             ELSE ExecOp(get(storageKey(key)), st, EmptyEnv)
    IN  IF ~e.ok THEN [err |-> "store", errKey |-> <<>>, val |-> NilBytes]
        ELSE IF ~e.out THEN [err |-> "NotExist", errKey |-> key, val |-> NilBytes]
        ELSE IF ~m.ok THEN [err |-> "store", errKey |-> <<>>, val |-> NilBytes]
        ELSE IF ~d.ok THEN [err |-> "store", errKey |-> <<>>, val |-> NilBytes]
        ELSE [err |-> "nil", errKey |-> <<>>, val |-> Bytes(d.env.valPrev)]

\* Load answering NotExist when the data node is missing
LoadCallMissingDataIsNotExist(st, key, f) ==
    LET e == IF f.ex THEN [ok |-> FALSE, out |-> FALSE]
             ELSE exists(st, storageKeyMD(key))
        m == IF f.c = 1 THEN [ok |-> FALSE, m |-> ZeroMetadata]
             ELSE getMD(st, storageKeyMD(key), ZeroMetadata)
        d == IF f.c = 2 THEN [ok |-> FALSE, st |-> st, env |-> EmptyEnv]
             ELSE ExecOp(get(storageKey(key)), st, EmptyEnv)
        value == d.env.valPrev
    IN  IF ~e.ok THEN [err |-> "store", errKey |-> <<>>, val |-> NilBytes]
        ELSE IF ~e.out THEN [err |-> "NotExist", errKey |-> key, val |-> NilBytes]
        ELSE IF ~m.ok THEN [err |-> "store", errKey |-> <<>>, val |-> NilBytes]
        ELSE IF ~d.ok THEN [err |-> "store", errKey |-> <<>>, val |-> NilBytes]
        ELSE IF EtcdGet(st, storageKey(key)).code = "KeyNotFound"
             THEN [err |-> "NotExist", errKey |-> key, val |-> NilBytes]
        ELSE IF sha1Sum(value) # m.m.Hash
             THEN [err |-> "FailedChecksum", errKey |-> key, val |-> NilBytes]
        ELSE [err |-> "nil", errKey |-> <<>>, val |-> Bytes(value)]

\* [err, errKey, val]
LoadCall(st, key, f) ==
    LET e == IF f.ex THEN [ok |-> FALSE, out |-> FALSE]
             ELSE exists(st, storageKeyMD(key))
        m == IF f.c = 1 THEN [ok |-> FALSE, m |-> ZeroMetadata]
             ELSE getMD(st, storageKeyMD(key), ZeroMetadata)
        d == IF f.c = 2 THEN [ok |-> FALSE, st |-> st, env |-> EmptyEnv]
             ELSE ExecOp(get(storageKey(key)), st, EmptyEnv)
        value == d.env.valPrev
    IN  IF ~e.ok THEN [err |-> "store", errKey |-> <<>>, val |-> NilBytes]
        ELSE IF ~e.out THEN [err |-> "NotExist", errKey |-> key, val |-> NilBytes]
        ELSE IF ~m.ok THEN [err |-> "store", errKey |-> <<>>, val |-> NilBytes]
        ELSE IF ~d.ok THEN [err |-> "store", errKey |-> <<>>, val |-> NilBytes]
        ELSE IF sha1Sum(value) # m.m.Hash
             THEN [err |-> "FailedChecksum", errKey |-> key, val |-> NilBytes]
        ELSE [err |-> "nil", errKey |-> <<>>, val |-> Bytes(value)]

Load(key, f) ==
    \E c \in {LoadCall(store, key, f)} :
        /\ last' = [NoCall EXCEPT
                      !.op = "Load", !.key = key, !.inj = (f # NoFail),
                      !.err = c.err, !.errKey = c.errKey, !.val = c.val]
        /\ UNCHANGED <<store, now, procs, overlap, acq, run, boot>>

(***************************************************************************)
(* etcdsrv.Delete                                                          *)
(***************************************************************************)
\* Delete removing the data node only
DeleteCallDataOnly(st, key, f) ==
    pipeline(<<del(storageKey(key))>>, <<>>, st, f)

\* Delete removing the metadata node first and the data node second
DeleteCallMDFirst(st, key, f) ==
    pipeline(<<del(storageKeyMD(key)), del(storageKey(key))>>, <<>>, st, f)

\* the commits of Delete; its rollbacks are nil
DeleteCommits(key) == <<del(storageKey(key)), del(storageKeyMD(key))>>

DeleteCall(st, key, f) == pipeline(DeleteCommits(key), <<>>, st, f)

Delete(key, f) ==
    \E res \in {DeleteCall(store, key, f)} :
        /\ store' = res.st
        /\ last' = [NoCall EXCEPT
                      !.op = "Delete", !.key = key, !.inj = (f # NoFail),
                      !.failedAt = res.failedAt,
                      !.err = IF res.failedAt # 0 THEN "pipeline" ELSE "nil"]
        /\ UNCHANGED <<now, procs, overlap, acq, run, boot>>

(***************************************************************************)
(* etcdsrv.Metadata                                                        *)
(***************************************************************************)
\* [err, errKey, md]
MetadataCall(st, key, f) ==
    LET e == IF f.ex THEN [ok |-> FALSE, out |-> FALSE]
             ELSE exists(st, storageKeyMD(key))
        m == IF f.c = 1 THEN [ok |-> FALSE, m |-> ZeroMetadata]
             ELSE getMD(st, storageKeyMD(key), ZeroMetadata)
    IN  IF ~e.ok THEN [err |-> "store", errKey |-> <<>>, md |-> NilMD]
        ELSE IF ~e.out THEN [err |-> "NotExist", errKey |-> key, md |-> NilMD]
        ELSE IF ~m.ok THEN [err |-> "store", errKey |-> <<>>, md |-> NilMD]
        ELSE [err |-> "nil", errKey |-> <<>>,
              md |-> [isNil |-> FALSE,
                      md |-> IF m.m.IsDir
                             THEN [m.m EXCEPT !.Path = TrimPrefix(m.m.Path, mdPrefix)]
                             ELSE m.m]]

Metadata(key, f) ==
    \E c \in {MetadataCall(store, key, f)} :
        /\ last' = [NoCall EXCEPT
                      !.op = "Metadata", !.key = key, !.inj = (f # NoFail),
                      !.err = c.err, !.errKey = c.errKey, !.md = c.md]
        /\ UNCHANGED <<store, now, procs, overlap, acq, run, boot>>

(***************************************************************************)
(* Another client of the store overwrites the data node of a key with the  *)
(* text of some payload, leaving the metadata node alone.                  *)
(***************************************************************************)
OutOfBand(key, value) ==
    \E r \in {EtcdSet(store, storageKey(key), RawText(EncodeToString(value)))} :
        /\ r.code = "ok"
        /\ store' = r.st
        /\ last' = [NoCall EXCEPT !.op = "OutOfBand", !.key = key, !.arg = value]
        /\ UNCHANGED <<now, procs, overlap, acq, run, boot>>

(***************************************************************************)
(* The lock of a key: etcdsrv.lock and etcdsrv.Unlock.  Obtained is the    *)
(* instant of the clock the lock was written at (its RFC 3339 text gives   *)
(* the instant back).                                                      *)
(***************************************************************************)
\* json.Unmarshal of a node's decoded text into a Lock, then
\* lockTime.UnmarshalText(l.Obtained): [ok, l].  A payload is no JSON
\* document; a Metadata document leaves Obtained empty, which is no time.
unmarshalLock(v) ==
    IF v.enc = "Lock" THEN [ok |-> TRUE, l |-> v.txt] ELSE [ok |-> FALSE, l |-> ZeroLock]

\* the failures of the store during one acquire or release
LockFails == {"none", "get", "write"}

\* the switch on an existing lock, taking every lock for expired
lockFreeAlways(l, tok, t) == TRUE

\* the switch on an existing lock without the case of the same client
lockFreeNoExtend(l, tok, t) == t - l.Obtained >= LockTimeout

\* the switch on an existing lock with > for >=
lockFreeStrict(l, tok, t) ==
    \/ l.Token = tok
    \/ t - l.Obtained > LockTimeout

\* the switch on an existing lock l: the same client extends it, any client
\* replaces it once it is past the lock timeout
lockFree(l, tok, t) ==
    \/ l.Token = tok
    \/ t - l.Obtained >= LockTimeout

\* one run of the acquire closure at instant t: [err, st, held]
acquire(st, tok, key, t, f) ==
    LET resp == IF f = "get" THEN [code |-> "Unavailable", node |-> Absent]
                ELSE EtcdGet(st, lockPath(key))
        held == unmarshalLock(resp.node.value)
        okToSet ==
            \/ resp.code = "KeyNotFound"
            \/ resp.code = "ok" /\ lockFree(held.l, tok, t)
        w == IF f = "write" THEN [code |-> "Unavailable", st |-> st]
             ELSE EtcdSet(st, lockPath(key), MarshalLock(Lock(tok, t, key)))
    IN  IF resp.code \notin {"ok", "KeyNotFound"}
        THEN [err |-> "store", st |-> st, held |-> ZeroLock]
        ELSE IF resp.code = "ok" /\ ~held.ok
        THEN [err |-> "decode", st |-> st, held |-> ZeroLock]
        ELSE IF ~okToSet THEN [err |-> "locked", st |-> st, held |-> held.l]
        ELSE IF w.code # "ok" THEN [err |-> "store", st |-> st, held |-> held.l]
        ELSE [err |-> "nil", st |-> w.st, held |-> held.l]

\* etcdsrv.lock: execute(acquire).  Without backoff (noBackoff) the call is
\* one run of the acquire closure and returns its error; with backoff the
\* call repeats the closure, and every repetition is a further step of this
\* action at a later instant of the clock.
lock(tok, key, f) ==
    \E c \in {acquire(store, tok, key, now, f)} :
        /\ store' = c.st
        /\ last' = [NoCall EXCEPT !.op = "lock", !.key = key, !.tok = tok,
                                   !.inj = (f # "none"), !.held = c.held,
                                   !.err = c.err]
        /\ UNCHANGED <<now, procs, overlap, acq, run, boot>>

\* the release closure that deletes nothing
releaseKeeps(st, key, f) == [err |-> "nil", st |-> st]

\* the release closure that takes a missing lock record for a released lock
releaseToleratesMissing(st, key, f) ==
    LET r == IF f = "write" THEN [code |-> "Unavailable", st |-> st]
             ELSE EtcdDelete(st, lockPath(key))
    IN  [err |-> IF r.code \in {"ok", "KeyNotFound"} THEN "nil" ELSE "store",
         st |-> r.st]

\* the release closure: [err, st]
release(st, key, f) ==
    LET r == IF f = "write" THEN [code |-> "Unavailable", st |-> st]
             ELSE EtcdDelete(st, lockPath(key))
    IN  [err |-> IF r.code = "ok" THEN "nil" ELSE "store", st |-> r.st]

\* etcdsrv.Unlock: execute(release), one run of the release closure.  tok is
\* the token of the calling process, which the call does not use; last.held
\* keeps, as history, the record the lock node held when the call was made.
Unlock(tok, key, f) ==
    \E c \in {release(store, key, f)} :
        /\ store' = c.st
        /\ last' = [NoCall EXCEPT !.op = "Unlock", !.key = key, !.tok = tok,
                                   !.inj = (f # "none"), !.err = c.err,
                                   !.held = unmarshalLock(store[lockPath(key)].value).l]
        /\ UNCHANGED <<now, procs, overlap, acq, run, boot>>

\* time passes
Tick ==
    /\ now < MaxTime
    /\ now' = now + 1
    /\ last' = [NoCall EXCEPT !.op = "Tick"]
    /\ UNCHANGED <<store, procs, overlap, acq, run, boot>>

(***************************************************************************)
(* The storage service under sequential calls: each call runs to its       *)
(* return before the next one starts; the store may fail any operation.    *)
(***************************************************************************)
Procs == {"p1", "p2"}

Idle ==
    [pc |-> "idle", op |-> "", key |-> <<>>, val |-> <<>>, ex |-> FALSE, idx |-> 0,
     t |-> ZeroTime]

\* the key space before anything was written
EmptyStore == [p \in NodePaths |-> Absent]

\* a client outside any Lock call
IdleAcq ==
    [pc |-> "idle", key |-> <<>>, noBackoff |-> FALSE, start |-> ZeroTime,
     retried |-> FALSE, refused |-> FALSE, raced |-> FALSE, held |-> ZeroLock,
     err |-> "nil"]

\* no run of pipeline
NoRun ==
    [commits |-> <<>>, rollbacks |-> <<>>, f |-> NoFail, done |-> FALSE,
     res |-> [st |-> <<>>, env |-> EmptyEnv, ran |-> <<>>, failedAt |-> 0,
              rbRun |-> <<>>, rbFailed |-> {}, err |-> NilError]]

\* the Caddyfile loader has not been called
NoBoot ==
    [pc |-> "idle", disabled |-> FALSE, caddyFile |-> <<>>, f |-> "none",
     inj |-> FALSE, start |-> ZeroTime, body |-> NilBytes, from |-> "",
     wrote |-> FALSE, err |-> "nil"]

Init ==
    /\ store = EmptyStore
    /\ now = 1
    /\ last = NoCall
    /\ procs = [p \in Procs |-> Idle]
    /\ overlap = {}
    /\ acq = [p \in Procs |-> IdleAcq]
    /\ run = NoRun
    /\ boot = NoBoot

Next ==
    \/ \E k \in Keys, v \in Payloads, f \in FailPlans : Store(k, v, f)
    \/ \E k \in Keys, f \in ReadFails(2) : Load(k, f)
    \/ \E k \in Keys, f \in ReadFails(2) : Delete(k, f)
    \/ \E k \in Keys, f \in ReadFails(1) : Metadata(k, f)
    \/ \E k \in Keys, v \in Payloads : OutOfBand(k, v)

Spec == Init /\ [][Next]_vars

(***************************************************************************)
(* The locks under sequential calls while time passes.                     *)
(***************************************************************************)
NextLock ==
    \/ \E tok \in Tokens, k \in Keys, f \in LockFails : lock(tok, k, f)
    \/ \E tok \in Tokens, k \in Keys, f \in {"none", "write"} : Unlock(tok, k, f)
    \/ Tick

SpecLock == Init /\ [][NextLock]_vars

(***************************************************************************)
(* Concurrent clients.  Each client runs one call at a time, and every     *)
(* access of a call to the store is a step of its own, so that the steps   *)
(* of the calls of different clients interleave.  The store fails no       *)
(* operation here; an operation fails only by the answer of the store      *)
(* (a missing key, a directory in the way).  The destinations valPrev and  *)
(* mdPrev are not kept between the steps: no later step reads them.        *)
(***************************************************************************)
CallCommits(c) ==
    IF c.op = "Store"
    THEN StoreCommits(c.key, c.val, NewMetadata(c.key, c.val, c.t), c.ex)
    ELSE DeleteCommits(c.key)

CallRollbacks(c) == IF c.op = "Store" THEN StoreRollbacks(c.key, c.ex) ELSE <<>>

\* the next rollback at or below index i that calls the store; 0: none left
RECURSIVE NextRollback(_, _)
NextRollback(i, rollbacks) ==
    IF i < 1 THEN 0
    ELSE IF i > Len(rollbacks) \/ rollbacks[i].op = "noop"
         THEN NextRollback(i - 1, rollbacks)
    ELSE i

Busy(q, key) == procs[q].pc # "idle" /\ procs[q].key = key

Overlaps(p, key) ==
    IF \E q \in Procs \ {p} : Busy(q, key) THEN overlap \cup {key} ELSE overlap

\* client p calls Store(key, value): the existence check
BeginStore(p, key, value) ==
    /\ procs[p].pc = "idle"
    /\ \E e \in {exists(store, storageKeyMD(key))} :
          procs' = [procs EXCEPT ![p] =
                      IF e.ok
                      THEN [pc |-> "commit", op |-> "Store", key |-> key, val |-> value,
                            ex |-> e.out, idx |-> 1, t |-> now]
                      ELSE Idle]
    /\ overlap' = Overlaps(p, key)
    /\ UNCHANGED <<store, now, last, acq, run, boot>>

\* client p calls Delete(key)
BeginDelete(p, key) ==
    /\ procs[p].pc = "idle"
    /\ procs' = [procs EXCEPT ![p] =
                   [pc |-> "commit", op |-> "Delete", key |-> key, val |-> <<>>,
                    ex |-> FALSE, idx |-> 1, t |-> now]]
    /\ overlap' = Overlaps(p, key)
    /\ UNCHANGED <<store, now, last, acq, run, boot>>

\* the next commit of the pipeline of client p
CommitStep(p) ==
    /\ procs[p].pc = "commit"
    /\ \E r \in {ExecOp(CallCommits(procs[p])[procs[p].idx], store, EmptyEnv)} :
          /\ store' = r.st
          /\ procs' = [procs EXCEPT ![p] =
                IF r.ok
                THEN IF procs[p].idx = Len(CallCommits(procs[p])) THEN Idle
                     ELSE [procs[p] EXCEPT !.idx = procs[p].idx + 1]
                ELSE IF NextRollback(procs[p].idx - 1, CallRollbacks(procs[p])) = 0
                     THEN Idle
                     ELSE [procs[p] EXCEPT
                             !.pc = "rollback",
                             !.idx = NextRollback(procs[p].idx - 1,
                                                  CallRollbacks(procs[p]))]]
    /\ UNCHANGED <<now, last, overlap, acq, run, boot>>

\* the next rollback of the failed pipeline of client p
RollbackStep(p) ==
    /\ procs[p].pc = "rollback"
    /\ \E r \in {ExecOp(CallRollbacks(procs[p])[procs[p].idx], store, EmptyEnv)} :
          /\ store' = r.st
          /\ procs' = [procs EXCEPT ![p] =
                IF NextRollback(procs[p].idx - 1, CallRollbacks(procs[p])) = 0
                THEN Idle
                ELSE [procs[p] EXCEPT
                        !.idx = NextRollback(procs[p].idx - 1, CallRollbacks(procs[p]))]]
    /\ UNCHANGED <<now, last, overlap, acq, run, boot>>

NextConc ==
    \/ \E p \in Procs, k \in Keys, v \in Payloads : BeginStore(p, k, v)
    \/ \E p \in Procs, k \in Keys : BeginDelete(p, k)
    \/ \E p \in Procs : CommitStep(p)
    \/ \E p \in Procs : RollbackStep(p)

SpecConc == Init /\ [][NextConc]_vars

(***************************************************************************)
(* pipeline on its own: one run on any list of commits and any list of     *)
(* rollbacks, of any lengths up to MaxOps, against an empty store.  A del  *)
(* of the missing key fails by the answer of the store, a set succeeds, a  *)
(* noop does nothing; the store fails one commit and one rollback or none. *)
(***************************************************************************)
PipeKey == storageKey(<<"a">>)

\* the operations of the commits, and those of the rollbacks
PipeOps == {set(PipeKey, Repeat(118, 1)), del(PipeKey), noop}

UndoOps == {del(PipeKey), noop}

OpLists(ops) == UNION {[1..n -> ops] : n \in 0..MaxOps}

PipeFails == [ex : {FALSE}, c : 0..MaxOps, r : 0..MaxOps]

InitPipe ==
    /\ store = EmptyStore
    /\ now = 1
    /\ last = NoCall
    /\ procs = [p \in Procs |-> Idle]
    /\ overlap = {}
    /\ acq = [p \in Procs |-> IdleAcq]
    /\ run \in {[NoRun EXCEPT !.commits = c, !.rollbacks = r, !.f = f] :
                  c \in OpLists(PipeOps), r \in OpLists(UndoOps),
                  f \in PipeFails}
    /\ boot = NoBoot

\* pipeline(run.commits, run.rollbacks, b)
RunPipeline ==
    /\ ~run.done
    /\ \E res \in {pipeline(run.commits, run.rollbacks, store, run.f)} :
          /\ run' = [run EXCEPT !.done = TRUE, !.res = res]
          /\ store' = res.st
    /\ UNCHANGED <<now, last, procs, overlap, acq, boot>>

NextPipe == RunPipeline

SpecPipe == InitPipe /\ [][NextPipe]_vars

(***************************************************************************)
(* Lock calls of concurrent clients on one key.  Each client is a process  *)
(* with a token of its own.  A run of the acquire closure is a read of the *)
(* lock node and, when the lock is free for the token, a separate write;   *)
(* the steps of the clients interleave.  A call is made by a service with  *)
(* or without backoff (noBackoff): execute returns the error of the first  *)
(* run, or repeats the closure until it succeeds or the time of the        *)
(* backoff has passed.  In a record of acq, retried tells that the closure *)
(* was repeated, refused that a run found the lock held by another token   *)
(* and not expired, raced that the call had read the lock as free while    *)
(* the call of the other client had done so too and not yet written.       *)
(***************************************************************************)
RaceKey == <<"a">>

TokenOf(p) == IF p = "p1" THEN "A" ELSE "B"

\* the closure up to its decision: [err, held]; err = "nil": okToSet
acquireRead(st, tok, key, t) ==
    LET resp == EtcdGet(st, lockPath(key))
        held == unmarshalLock(resp.node.value)
    IN  IF resp.code \notin {"ok", "KeyNotFound"}
        THEN [err |-> "store", held |-> ZeroLock]
        ELSE IF resp.code = "ok" /\ ~held.ok
        THEN [err |-> "decode", held |-> ZeroLock]
        ELSE IF resp.code = "ok" /\ ~lockFree(held.l, tok, t)
        THEN [err |-> "locked", held |-> held.l]
        ELSE [err |-> "nil", held |-> held.l]

\* execute repeating the closure whatever the service was built with
executeAlwaysBackoff(c, e, t) ==
    IF t - c.start >= MaxElapsedTime
    THEN [c EXCEPT !.pc = "idle", !.err = e]
    ELSE [c EXCEPT !.pc = "backoff", !.err = e]

\* execute after a run of the closure returned the error e at instant t: the
\* call returns e, or waits to run the closure again
execute(c, e, t) ==
    IF c.noBackoff \/ t - c.start >= MaxElapsedTime
    THEN [c EXCEPT !.pc = "idle", !.err = e]
    ELSE [c EXCEPT !.pc = "backoff", !.err = e]

Other(p) == CHOOSE q \in Procs : q # p

\* client p calls Lock(RaceKey) on a service built with noBackoff = nb
LockBegin(p, nb) ==
    /\ acq[p].pc = "idle"
    /\ acq' = [acq EXCEPT ![p] = [IdleAcq EXCEPT !.pc = "read", !.key = RaceKey,
                                                 !.noBackoff = nb, !.start = now]]
    /\ UNCHANGED <<store, now, last, procs, overlap, run, boot>>

\* the read of the lock node and the decision on it
AcquireRead(p) ==
    /\ acq[p].pc = "read"
    /\ \E r \in {acquireRead(store, TokenOf(p), acq[p].key, now)} :
          acq' = IF r.err = "nil"
                 THEN IF acq[Other(p)].pc = "write" /\ acq[Other(p)].key = acq[p].key
                      THEN [q \in Procs |->
                              IF q = p
                              THEN [acq[p] EXCEPT !.pc = "write", !.held = r.held,
                                                  !.raced = TRUE]
                              ELSE [acq[q] EXCEPT !.raced = TRUE]]
                      ELSE [acq EXCEPT ![p] = [acq[p] EXCEPT !.pc = "write",
                                                             !.held = r.held]]
                 ELSE [acq EXCEPT ![p] =
                         execute([acq[p] EXCEPT !.held = r.held,
                                                !.refused = @ \/ r.err = "locked"],
                                 r.err, now)]
    /\ UNCHANGED <<store, now, last, procs, overlap, run, boot>>

\* a write that first compares the lock node with what the read saw
AcquireWriteCompareAndSwap(p) ==
    /\ acq[p].pc = "write"
    /\ IF unmarshalLock(store[lockPath(acq[p].key)].value).l = acq[p].held
       THEN /\ store' = EtcdSet(store, lockPath(acq[p].key),
                                MarshalLock(Lock(TokenOf(p), now, acq[p].key))).st
            /\ acq' = [acq EXCEPT ![p] = [acq[p] EXCEPT !.pc = "idle", !.err = "nil"]]
       ELSE /\ store' = store
            /\ acq' = [acq EXCEPT ![p] = execute(acq[p], "locked", now)]
    /\ UNCHANGED <<now, last, procs, overlap, run, boot>>

\* the write of the lock node with the token of p and the current time
AcquireWrite(p) ==
    /\ acq[p].pc = "write"
    /\ \E w \in {EtcdSet(store, lockPath(acq[p].key),
                         MarshalLock(Lock(TokenOf(p), now, acq[p].key)))} :
          /\ store' = w.st
          /\ acq' = [acq EXCEPT ![p] =
                       IF w.code = "ok"
                       THEN [acq[p] EXCEPT !.pc = "idle", !.err = "nil"]
                       ELSE execute(acq[p], "store", now)]
    /\ UNCHANGED <<now, last, procs, overlap, run, boot>>

\* the backoff is over: the closure runs again
AcquireRetry(p) ==
    /\ acq[p].pc = "backoff"
    /\ acq' = [acq EXCEPT ![p] = [acq[p] EXCEPT !.pc = "read", !.retried = TRUE]]
    /\ UNCHANGED <<store, now, last, procs, overlap, run, boot>>

NextLockConc ==
    \/ \E p \in Procs, nb \in BOOLEAN : LockBegin(p, nb)
    \/ \E p \in Procs : AcquireRead(p)
    \/ \E p \in Procs : AcquireWrite(p)
    \/ \E p \in Procs : AcquireRetry(p)
    \/ \E p \in Procs : acq[p].pc = "idle" /\ Unlock(TokenOf(p), RaceKey, "none")
    \/ Tick

SpecLockConc == Init /\ [][NextLockConc]_vars

(***************************************************************************)
(* Keys at several depths under one directory: calls of Store, Delete and  *)
(* Metadata at different instants.  Metadata on a directory of the         *)
(* metadata namespace gives the aggregate of the records below it.         *)
(***************************************************************************)
TreeKeys == {<<"a", "b">>, <<"a", "c", "d">>}

\* the keys, and the directories above them up to the root of the namespace
TreeDirs == {<<>>} \cup UNION {Prefixes(k) : k \in TreeKeys}

TreePaths ==
    UNION {Prefixes(storageKey(k)) \cup Prefixes(storageKeyMD(k)) : k \in TreeKeys}

InitTree ==
    /\ store = [p \in TreePaths |-> Absent]
    /\ now = 1
    /\ last = NoCall
    /\ procs = [p \in Procs |-> Idle]
    /\ overlap = {}
    /\ acq = [p \in Procs |-> IdleAcq]
    /\ run = NoRun
    /\ boot = NoBoot

NextTree ==
    \/ \E k \in TreeKeys, v \in Payloads : Store(k, v, NoFail)
    \/ \E k \in TreeKeys : Delete(k, NoFail)
    \/ \E k \in TreeDirs : Metadata(k, NoFail)
    \/ Tick

SpecTree == InitTree /\ [][NextTree]_vars

(***************************************************************************)
(* etcdsrv.List: the nodes of a subtree, filtered.  A node key is the text *)
(* of its path: a sequence of separators and names.                        *)
(***************************************************************************)
Sep == "/"

\* the text of a path: "/caddy/a/b"
RECURSIVE Str(_)
Str(p) == IF p = <<>> THEN <<>> ELSE <<Sep, Head(p)>> \o Str(Tail(p))

\* strings.HasPrefix
HasPrefix(s, prefix) == IsPrefix(prefix, s)

\* path.Split: the text up to and including the last separator
SplitDir(s) ==
    LET seps == {i \in 1..Len(s) : s[i] = Sep}
    IN  IF seps = {} THEN <<>>
        ELSE SubSeq(s, 1, CHOOSE i \in seps : \A j \in seps : j <= i)

\* client.Node, of the node at path q
NodeAt(st, q) == [Key |-> Str(q), Dir |-> st[q].kind = "dir"]

Children(st, p) ==
    {q \in DOMAIN st : Len(q) = Len(p) + 1 /\ IsPrefix(p, q) /\ st[q].kind # "none"}

\* the store returns the children of a directory in an order of its own
ChildOrders == {"asc", "desc"}

NameOrder == <<"a", "b", "c", "d", "md">>

Rank(q) == CHOOSE i \in 1..Len(NameOrder) : NameOrder[i] = q[Len(q)]

RECURSIVE InOrder(_, _)
InOrder(S, ord) ==
    IF S = {} THEN <<>>
    ELSE LET q == CHOOSE x \in S :
                    \A y \in S : IF ord = "asc" THEN Rank(x) <= Rank(y)
                                 ELSE Rank(x) >= Rank(y)
         IN  <<q>> \o InOrder(S \ {q}, ord)

\* walkNodes: the node, then the nodes below each of its children
RECURSIVE walkNodes(_, _, _)
RECURSIVE walkEach(_, _, _)
walkEach(st, qs, ord) ==
    IF qs = <<>> THEN <<>>
    ELSE walkNodes(st, Head(qs), ord) \o walkEach(st, Tail(qs), ord)

\* walkNodes appending the node after the nodes below it
walkNodesChildrenFirst(st, p, ord) ==
    walkEach(st, InOrder(Children(st, p), ord), ord) \o <<NodeAt(st, p)>>

walkNodes(st, p, ord) ==
    <<NodeAt(st, p)>> \o walkEach(st, InOrder(Children(st, p), ord), ord)

\* list with a missing root reported as an error
listNotFoundIsError(st, k, ord, fails) ==
    LET resp == EtcdGet(st, k)
    IN  IF fails \/ resp.code # "ok" THEN [ok |-> FALSE, nodes |-> <<>>]
        ELSE [ok |-> TRUE, nodes |-> walkNodes(st, k, ord)]

\* list: [ok, nodes]
list(st, k, ord, fails) ==
    LET resp == EtcdGet(st, k)
    IN  IF ~fails /\ resp.code = "KeyNotFound" THEN [ok |-> TRUE, nodes |-> <<>>]
        ELSE IF fails \/ resp.code # "ok" THEN [ok |-> FALSE, nodes |-> <<>>]
        ELSE [ok |-> TRUE, nodes |-> walkNodes(st, k, ord)]

\* the filters, as List takes them
FilterPrefix(prefix, cut) == [f |-> "FilterPrefix", prefix |-> prefix, cut |-> cut]

FilterRemoveDirectories == [f |-> "FilterRemoveDirectories", prefix |-> <<>>, cut |-> <<>>]

FilterExactPrefix(prefix, cut) ==
    [f |-> "FilterExactPrefix", prefix |-> prefix, cut |-> cut]

\* FilterExactPrefix keeping every terminal node below the prefix
keepExactPrefixDeep(prefix, cut, n) ==
    ~n.Dir /\ HasPrefix(TrimPrefix(n.Key, cut), prefix)

\* the function FilterExactPrefix returns, on node n
keepExactPrefix(prefix, cut, n) ==
    LET s == TrimPrefix(n.Key, cut)
        dir == SplitDir(s)
    IN  IF n.Dir THEN FALSE
        ELSE dir = prefix \/ dir = prefix \o <<Sep>>

\* what filter flt answers on node n
Keeps(flt, n) ==
    IF flt.f = "FilterPrefix" THEN HasPrefix(TrimPrefix(n.Key, flt.cut), flt.prefix)
    ELSE IF flt.f = "FilterRemoveDirectories" THEN ~n.Dir
    ELSE keepExactPrefix(flt.prefix, flt.cut, n)

\* filter: the nodes the filter keeps, in their order
filter(nodes, flt) == SelectSeq(nodes, LAMBDA n : Keeps(flt, n))

\* only the first filter is applied
applyFirstFilter(nodes, filters) ==
    IF filters = <<>> THEN nodes ELSE filter(nodes, Head(filters))

\* for _, f := range filters { nodes = filter(nodes, f) }
RECURSIVE applyFilters(_, _)
applyFilters(nodes, filters) ==
    IF filters = <<>> THEN nodes
    ELSE applyFilters(filter(nodes, Head(filters)), Tail(filters))

\* [err, out]
ListCall(st, key, filters, ord, fails) ==
    LET l == list(st, storageKey(key), ord, fails)
        nodes == applyFilters(l.nodes, filters)
    IN  IF ~l.ok THEN [err |-> "store", out |-> <<>>]
        ELSE [err |-> "nil",
              out |-> [i \in 1..Len(nodes) |-> TrimPrefix(nodes[i].Key, Str(KeyPrefix))]]

List(key, filters, ord, fails) ==
    \E c \in {ListCall(store, key, filters, ord, fails)} :
        /\ last' = [NoCall EXCEPT
                      !.op = "List", !.key = key, !.filters = filters, !.inj = fails,
                      !.ord = ord, !.err = c.err, !.out = c.out]
        /\ UNCHANGED <<store, now, procs, overlap, acq, run, boot>>

\* the filters of the calls: on the directory "a" with and without the
\* trailing separator, and on the subtree "a/c"
Filters ==
    {FilterRemoveDirectories,
     FilterPrefix(Str(<<"a", "c">>), Str(KeyPrefix)),
     FilterExactPrefix(Str(<<"a">>), Str(KeyPrefix)),
     FilterExactPrefix(Str(<<"a">>) \o <<Sep>>, Str(KeyPrefix))}

FilterLists == {<<>>} \cup {<<f>> : f \in Filters} \cup {<<f, g>> : f, g \in Filters}

\* the one payload the keys of the listed tree are stored with
ListPayload == <<118>>

NextList ==
    \/ \E k \in TreeKeys : Store(k, ListPayload, NoFail)
    \/ \E k \in TreeKeys : Delete(k, NoFail)
    \/ \E k \in TreeDirs, fs \in FilterLists, ord \in ChildOrders :
          List(k, fs, ord, FALSE)
    \/ \E k \in TreeDirs : List(k, <<>>, "asc", TRUE)

SpecList == InitTree /\ [][NextList]_vars

(***************************************************************************)
(* The storage calls next to the locks: clients lock and unlock the keys   *)
(* between the calls of Store, Load and Delete.                            *)
(***************************************************************************)
NextGuard ==
    \/ \E k \in Keys, v \in Payloads : Store(k, v, NoFail)
    \/ \E k \in Keys : Load(k, NoFail)
    \/ \E k \in Keys : Delete(k, NoFail)
    \/ \E tok \in Tokens, k \in Keys : lock(tok, k, "none")
    \/ \E tok \in Tokens, k \in Keys : Unlock(tok, k, "none")

SpecGuard == Init /\ [][NextGuard]_vars

(***************************************************************************)
(* backoff.Retry under pipeline, attempt by attempt.  Retry resets the     *)
(* backoff, runs the operation, and after a failed attempt either waits    *)
(* and runs it again or, the backoff's time limit passed, returns the     *)
(* error.  An attempt fails when the store cannot be reached, or when the  *)
(* operation itself returns an error.  The time a call has waited is       *)
(* counted in ticks, one for each wait.                                    *)
(***************************************************************************)
RetryKey == <<"a">>

RetryPayload == <<118>>

\* the calls of pipeline: the one of Store on a new key, the one of Delete
RetryRuns ==
    {[commits |-> StoreCommits(RetryKey, RetryPayload,
                               NewMetadata(RetryKey, RetryPayload, 1), FALSE),
      rollbacks |-> StoreRollbacks(RetryKey, FALSE)],
     [commits |-> DeleteCommits(RetryKey), rollbacks |-> <<>>]}

\* no call of pipeline yet
NoRetry ==
    [commits |-> <<>>, rollbacks |-> <<>>, pc |-> "idle", idx |-> 0, tries |-> 0,
     elapsed |-> 0, attempt |-> "none", env |-> EmptyEnv, ran |-> <<>>,
     failedAt |-> 0, spent |-> 0, rbRun |-> <<>>, rbFailed |-> {},
     recovered |-> {}, err |-> NilError]

\* a backoff that never gives up
NextBackOffNeverStops(elapsed) == FALSE

\* b.NextBackOff() = backoff.Stop: the time limit has passed
NextBackOffStops(elapsed) == elapsed >= MaxElapsedTime

\* the first rollback to run at or below index i; 0: none
FirstRollback(i, rollbacks) == IF i > Len(rollbacks) THEN Len(rollbacks) ELSE i

\* the run after Retry on rollback r.idx has returned
afterRollback(r, ok) ==
    LET next == r.idx - 1
        acc == [r EXCEPT !.rbRun = Append(r.rbRun, r.idx),
                         !.rbFailed = IF ok THEN r.rbFailed ELSE r.rbFailed \cup {r.idx},
                         !.err = IF ok THEN r.err
                                 ELSE Wrapf(r.err, RollbackError(r.idx)),
                         !.tries = 0, !.elapsed = 0]
    IN  IF next < 1 THEN [acc EXCEPT !.pc = "done", !.idx = 0]
        ELSE [acc EXCEPT !.idx = next]

\* the run after Retry on commit r.idx has returned an error
afterCommitFailed(r) ==
    LET first == FirstRollback(r.idx - 1, r.rollbacks)
        acc == [r EXCEPT !.failedAt = r.idx, !.spent = r.tries + 1,
                         !.err = CommitError(r.idx), !.tries = 0, !.elapsed = 0]
    IN  IF first < 1 THEN [acc EXCEPT !.pc = "done", !.idx = 0]
        ELSE [acc EXCEPT !.pc = "rollback", !.idx = first]

\* the run after Retry on commit r.idx has returned nil
afterCommit(r) ==
    LET acc == [r EXCEPT !.recovered = IF r.tries > 0 THEN r.recovered \cup {r.idx}
                                       ELSE r.recovered,
                         !.tries = 0, !.elapsed = 0]
    IN  IF r.idx = Len(r.commits) THEN [acc EXCEPT !.pc = "done", !.idx = 0]
        ELSE [acc EXCEPT !.idx = r.idx + 1]

\* a commit that failed an attempt is taken for failed when it succeeds later
commitAttemptedHoldsFailure(r, ok) ==
    IF ok /\ r.tries = 0 THEN afterCommit(r)
    ELSE IF ok \/ NextBackOffStops(r.elapsed) THEN afterCommitFailed(r)
    ELSE [r EXCEPT !.tries = r.tries + 1, !.elapsed = r.elapsed + 1]

\* the run after an attempt of commit r.idx under Retry: it returned nil, or
\* it failed and Retry gives up, or it failed and Retry waits
commitAttempted(r, ok) ==
    IF ok THEN afterCommit(r)
    ELSE IF NextBackOffStops(r.elapsed) THEN afterCommitFailed(r)
    ELSE [r EXCEPT !.tries = r.tries + 1, !.elapsed = r.elapsed + 1]

\* the run after an attempt of rollback r.idx under Retry
rollbackAttempted(r, ok) ==
    IF ok \/ NextBackOffStops(r.elapsed) THEN afterRollback(r, ok)
    ELSE [r EXCEPT !.tries = r.tries + 1, !.elapsed = r.elapsed + 1]

InitRetry ==
    /\ store = EmptyStore
    /\ now = 1
    /\ last = NoCall
    /\ procs = [p \in Procs |-> Idle]
    /\ overlap = {}
    /\ acq = [p \in Procs |-> IdleAcq]
    /\ run = NoRetry
    /\ boot = NoBoot

\* pipeline(c.commits, c.rollbacks, backoff.NewExponentialBackOff()) is called
PipelineBegin(c) ==
    /\ run.pc \in {"idle", "done"}
    /\ run' = [NoRetry EXCEPT !.commits = c.commits, !.rollbacks = c.rollbacks,
                              !.pc = "commit", !.idx = 1]
    /\ UNCHANGED <<store, now, last, procs, overlap, acq, boot>>

\* one attempt of the commit in turn, and the wait after it when it failed
CommitAttempt(reached) ==
    /\ run.pc = "commit"
    /\ \E r \in {IF reached THEN ExecOp(run.commits[run.idx], store, run.env)
                 ELSE [ok |-> FALSE, st |-> store, env |-> run.env]} :
          /\ store' = r.st
          /\ run' = [commitAttempted([run EXCEPT
                                        !.env = r.env,
                                        !.ran = IF run.tries = 0
                                                THEN Append(run.ran, run.idx)
                                                ELSE run.ran], r.ok)
                       EXCEPT !.attempt = IF r.ok THEN "ok" ELSE "failed"]
    /\ UNCHANGED <<now, last, procs, overlap, acq, boot>>

\* one attempt of the rollback in turn, and the wait after it when it failed
RollbackAttempt(reached) ==
    /\ run.pc = "rollback"
    /\ \E r \in {IF reached THEN ExecOp(run.rollbacks[run.idx], store, run.env)
                 ELSE [ok |-> FALSE, st |-> store, env |-> run.env]} :
          /\ store' = r.st
          /\ run' = [rollbackAttempted([run EXCEPT !.env = r.env], r.ok)
                       EXCEPT !.attempt = IF r.ok THEN "ok" ELSE "failed"]
    /\ UNCHANGED <<now, last, procs, overlap, acq, boot>>

\* the steps of a call of pipeline on its way to its return
PipelineStep ==
    \/ \E reached \in BOOLEAN : CommitAttempt(reached)
    \/ \E reached \in BOOLEAN : RollbackAttempt(reached)

NextRetry ==
    \/ \E c \in RetryRuns : PipelineBegin(c)
    \/ PipelineStep

SpecRetry == InitRetry /\ [][NextRetry]_vars

\* the goroutine that called pipeline keeps running: an attempt returns and
\* a wait of the backoff ends
SpecRetryFair == SpecRetry /\ WF_vars(PipelineStep)

(***************************************************************************)
(* Sequential calls of Store and Delete that end cleanly: a Delete that    *)
(* returns nil; a Store that returns nil, or fails at one step and has     *)
(* every rollback it runs succeed.                                         *)
(***************************************************************************)
NextClean ==
    \/ \E k \in Keys, v \in Payloads, f \in FailPlans :
          Store(k, v, f) /\ last'.rbFailed = {}
    \/ \E k \in Keys, f \in ReadFails(2) :
          Delete(k, f) /\ last'.err = "nil"

SpecClean == Init /\ [][NextClean]_vars

(***************************************************************************)
(* Keys whose first segment is the name of a namespace: "md/a", "lock/a".  *)
(* The data node of a key is path.Join(KeyPrefix, key), and both           *)
(* namespaces lie under KeyPrefix.                                         *)
(***************************************************************************)
AliasKeys == {<<"a">>, <<"md", "a">>, <<"lock", "a">>}

AliasPaths ==
    UNION {Prefixes(storageKey(k)) \cup Prefixes(storageKeyMD(k))
             \cup Prefixes(lockPath(k)) : k \in AliasKeys}

InitAlias ==
    /\ store = [p \in AliasPaths |-> Absent]
    /\ now = 1
    /\ last = NoCall
    /\ procs = [p \in Procs |-> Idle]
    /\ overlap = {}
    /\ acq = [p \in Procs |-> IdleAcq]
    /\ run = NoRun
    /\ boot = NoBoot

\* the one payload the keys are stored with, and the one client that locks
AliasPayload == <<118>>

AliasToken == "A"

NextAlias ==
    \/ \E k \in AliasKeys : Store(k, AliasPayload, NoFail)
    \/ \E k \in AliasKeys : Load(k, NoFail)
    \/ \E k \in AliasKeys : Delete(k, NoFail)
    \/ lock(AliasToken, <<"a">>, "none")
    \/ Unlock(AliasToken, <<"a">>, "none")

SpecAlias == InitAlias /\ [][NextAlias]_vars

(***************************************************************************)
(* The Caddyfile loader (Load in loader.go).  A call reads the node        *)
(* <prefix>/caddyfile, and with nothing there and a bootstrap file         *)
(* configured takes the lock "caddyfile", writes the file's content and    *)
(* releases the lock.  Lock repeats the acquire closure with backoff, so a *)
(* call that finds the lock held waits; other instances of the cluster     *)
(* lock, unlock and write the node meanwhile.                              *)
(***************************************************************************)
CaddyfileKey == <<"caddyfile">>

\* the token of the process that calls the loader, and that of another
LoaderToken == "A"

OtherToken == "B"

LoaderPaths == Prefixes(storageKey(CaddyfileKey)) \cup Prefixes(lockPath(CaddyfileKey))

\* the store failures a call can meet: reading the node, writing it
LoaderFails == {"none", "get", "set"}

\* the switch with the configured file first
chooseInputFileFirst(content, caddyFile) ==
    IF Len(caddyFile) > 0 THEN "file"
    ELSE IF Len(content) > 0 THEN "etcd"
    ELSE "none"

\* the switch of Load on what was read and what is configured
chooseInput(content, caddyFile) ==
    IF Len(content) > 0 THEN "etcd"
    ELSE IF Len(caddyFile) > 0 THEN "file"
    ELSE "none"

\* backoff.Retry(get(cli, <prefix>/caddyfile, dst), b): [ok, bytes]
readCaddyfile(st, f) ==
    LET r == ExecOp(get(storageKey(CaddyfileKey)), st, EmptyEnv)
    IN  IF f = "get" \/ ~r.ok THEN [ok |-> FALSE, bytes |-> <<>>]
        ELSE [ok |-> TRUE, bytes |-> r.env.valPrev]

\* one run of the acquire closure of srv.Lock("caddyfile") at instant t and,
\* the lock obtained, the write of the file and the deferred Unlock:
\* [locked, ok, st]
saveUnderLock(st, caddyFile, t, f) ==
    LET a == acquire(st, LoaderToken, CaddyfileKey, t, "none")
        res == pipeline(<<set(storageKey(CaddyfileKey), caddyFile)>>, <<>>, a.st,
                        IF f = "set" THEN [NoFail EXCEPT !.c = 1] ELSE NoFail)
        u == release(res.st, CaddyfileKey, "none")
    IN  IF a.err # "nil" THEN [locked |-> FALSE, ok |-> FALSE, st |-> st]
        ELSE [locked |-> TRUE, ok |-> res.failedAt = 0, st |-> u.st]

\* what Load returns after the lock was taken and the write was tried
savedResult(b, s) ==
    IF s.ok
    THEN [b EXCEPT !.pc = "done", !.body = Bytes(b.caddyFile), !.from = "file",
                   !.wrote = TRUE]
    ELSE [b EXCEPT !.pc = "done", !.err = "store"]

\* what Load returns when Lock has given up
unsavedResult(b) ==
    [b EXCEPT !.pc = "done", !.body = Bytes(b.caddyFile), !.from = "file"]

InitLoader ==
    /\ store = [p \in LoaderPaths |-> Absent]
    /\ now = 1
    /\ last = NoCall
    /\ procs = [p \in Procs |-> Idle]
    /\ overlap = {}
    /\ acq = [p \in Procs |-> IdleAcq]
    /\ run = NoRun
    /\ boot = NoBoot

\* Load(servertype), up to its return or to the first wait of Lock
LoaderCall(disabled, caddyFile, f) ==
    /\ boot.pc = "idle"
    /\ \E b \in {[NoBoot EXCEPT !.disabled = disabled, !.caddyFile = caddyFile,
                                !.start = now, !.inj = (f # "none")]},
          r \in {readCaddyfile(store, f)},
          s \in {saveUnderLock(store, caddyFile, now, f)} :
          IF disabled THEN
              /\ boot' = [b EXCEPT !.pc = "done"]
              /\ store' = store
          ELSE IF ~r.ok THEN
              /\ boot' = [b EXCEPT !.pc = "done", !.err = "store"]
              /\ store' = store
          ELSE IF chooseInput(r.bytes, caddyFile) = "etcd" THEN
              /\ boot' = [b EXCEPT !.pc = "done", !.body = Bytes(r.bytes),
                                   !.from = "etcd"]
              /\ store' = store
          ELSE IF chooseInput(r.bytes, caddyFile) = "none" THEN
              /\ boot' = [b EXCEPT !.pc = "done"]
              /\ store' = store
          ELSE IF s.locked THEN
              /\ boot' = savedResult(b, s)
              /\ store' = s.st
          ELSE
              /\ boot' = [b EXCEPT !.pc = "locking", !.f = f]
              /\ store' = store
    /\ UNCHANGED <<now, last, procs, overlap, acq, run>>

\* Lock runs the acquire closure again after a wait: the lock is obtained
\* and the file written, or the backoff's time limit has passed and Load
\* returns without writing
LoaderLockRetry ==
    /\ boot.pc = "locking"
    /\ \E s \in {saveUnderLock(store, boot.caddyFile, now, boot.f)} :
          /\ s.locked \/ now - boot.start >= MaxElapsedTime
          /\ boot' = IF s.locked THEN savedResult(boot, s) ELSE unsavedResult(boot)
          /\ store' = s.st
    /\ UNCHANGED <<now, last, procs, overlap, acq, run>>

NextLoader ==
    \/ \E disabled \in BOOLEAN, caddyFile \in Payloads, f \in LoaderFails :
          LoaderCall(disabled, caddyFile, f)
    \/ LoaderLockRetry
    \/ lock(OtherToken, CaddyfileKey, "none")
    \/ Unlock(OtherToken, CaddyfileKey, "none")
    \/ \E v \in Payloads : OutOfBand(CaddyfileKey, v)
    \/ Tick

SpecLoader == InitLoader /\ [][NextLoader]_vars

(***************************************************************************)
(* Three clients and the lock of one key under the discipline of a mutex:  *)
(* every acquire is one atomic run of the acquire closure, and a client    *)
(* calls Unlock only after a Lock of its own that returned nil.  acq maps  *)
(* the token of a client to what the client believes: "held" from its      *)
(* successful Lock, at instant start, until its Unlock; held is the record *)
(* its Lock read, and after its Unlock the record its Unlock removed.      *)
(***************************************************************************)
Clients == {"A", "B", "C"}

InitHandoff ==
    /\ store = EmptyStore
    /\ now = 1
    /\ last = NoCall
    /\ procs = [p \in Procs |-> Idle]
    /\ overlap = {}
    /\ acq = [tok \in Clients |-> IdleAcq]
    /\ run = NoRun
    /\ boot = NoBoot

\* the client of token tok calls Lock(RaceKey)
ClientLock(tok) ==
    /\ acq[tok].pc = "idle"
    /\ \E c \in {acquire(store, tok, RaceKey, now, "none")} :
          /\ store' = c.st
          /\ last' = [NoCall EXCEPT !.op = "lock", !.key = RaceKey, !.tok = tok,
                                     !.held = c.held, !.err = c.err]
          /\ acq' = IF c.err = "nil"
                    THEN [acq EXCEPT ![tok] =
                            [IdleAcq EXCEPT !.pc = "held", !.key = RaceKey,
                                            !.start = now, !.held = c.held]]
                    ELSE acq
    /\ UNCHANGED <<now, procs, overlap, run, boot>>

\* an Unlock that removes the record of the caller's token only
ClientUnlockOwnRecord(tok) ==
    /\ acq[tok].pc = "held"
    /\ \E c \in {IF unmarshalLock(store[lockPath(RaceKey)].value).l.Token = tok
                 THEN release(store, RaceKey, "none")
                 ELSE [err |-> "store", st |-> store]} :
          /\ store' = c.st
          /\ last' = [NoCall EXCEPT
                        !.op = "Unlock", !.key = RaceKey, !.tok = tok, !.err = c.err,
                        !.held = unmarshalLock(store[lockPath(RaceKey)].value).l]
          /\ acq' = [acq EXCEPT ![tok] =
                       [IdleAcq EXCEPT
                          !.held = unmarshalLock(store[lockPath(RaceKey)].value).l]]
    /\ UNCHANGED <<now, procs, overlap, run, boot>>

\* the client of token tok, after its Lock returned nil, calls Unlock(RaceKey)
ClientUnlock(tok) ==
    /\ acq[tok].pc = "held"
    /\ \E c \in {release(store, RaceKey, "none")} :
          /\ store' = c.st
          /\ last' = [NoCall EXCEPT
                        !.op = "Unlock", !.key = RaceKey, !.tok = tok, !.err = c.err,
                        !.held = unmarshalLock(store[lockPath(RaceKey)].value).l]
          /\ acq' = [acq EXCEPT ![tok] =
                       [IdleAcq EXCEPT
                          !.held = unmarshalLock(store[lockPath(RaceKey)].value).l]]
    /\ UNCHANGED <<now, procs, overlap, run, boot>>

NextHandoff ==
    \/ \E tok \in Clients : ClientLock(tok)
    \/ \E tok \in Clients : ClientUnlock(tok)
    \/ Tick

SpecHandoff == InitHandoff /\ [][NextHandoff]_vars

(***************************************************************************)
(* A Load among concurrent Stores.  Two clients run Store calls step by    *)
(* step as above; a third client, the reader, runs Load calls, and each of *)
(* the three reads of a Load (the existence check, the metadata node, the  *)
(* data node) is a step of its own.  The reader keeps the record it read   *)
(* from the metadata node (md) until it has read the data node.            *)
(***************************************************************************)
Reader == "r"

IdleLoad == [pc |-> "idle", key |-> <<>>, md |-> ZeroMetadata]

InitLoadConc ==
    /\ store = EmptyStore
    /\ now = 1
    /\ last = NoCall
    /\ procs = [p \in Procs \cup {Reader} |-> IF p = Reader THEN IdleLoad ELSE Idle]
    /\ overlap = {}
    /\ acq = [p \in Procs |-> IdleAcq]
    /\ run = NoRun
    /\ boot = NoBoot

\* what a Load call returned: its error, its payload, and the record it had
\* read from the metadata node, if it got that far
Returned(key, err, val, md) ==
    [NoCall EXCEPT !.op = "Load", !.key = key, !.err = err,
                   !.errKey = IF err \in {"NotExist", "FailedChecksum"} THEN key ELSE <<>>,
                   !.val = val, !.md = md]

\* the reader calls Load(key): the existence check
BeginLoad(key) ==
    /\ procs[Reader].pc = "idle"
    /\ \E e \in {exists(store, storageKeyMD(key))} :
          IF ~e.ok
          THEN /\ last' = Returned(key, "store", NilBytes, NilMD)
               /\ UNCHANGED procs
          ELSE IF ~e.out
          THEN /\ last' = Returned(key, "NotExist", NilBytes, NilMD)
               /\ UNCHANGED procs
          ELSE /\ procs' = [procs EXCEPT ![Reader] =
                              [IdleLoad EXCEPT !.pc = "getMD", !.key = key]]
               /\ UNCHANGED last
    /\ UNCHANGED <<store, now, overlap, acq, run, boot>>

\* the reader's Load returning whatever it read from the data node
LoadStepNoChecksum ==
    /\ procs[Reader].pc \in {"getMD", "get"}
    /\ IF procs[Reader].pc = "getMD"
       THEN \E m \in {getMD(store, storageKeyMD(procs[Reader].key), ZeroMetadata)} :
               IF ~m.ok
               THEN /\ last' = Returned(procs[Reader].key, "store", NilBytes, NilMD)
                    /\ procs' = [procs EXCEPT ![Reader] = IdleLoad]
               ELSE /\ procs' = [procs EXCEPT ![Reader].pc = "get", ![Reader].md = m.m]
                    /\ UNCHANGED last
       ELSE \E d \in {ExecOp(get(storageKey(procs[Reader].key)), store, EmptyEnv)} :
               /\ procs' = [procs EXCEPT ![Reader] = IdleLoad]
               /\ last' =
                    IF ~d.ok
                    THEN Returned(procs[Reader].key, "store", NilBytes, NilMD)
                    ELSE Returned(procs[Reader].key, "nil", Bytes(d.env.valPrev),
                                  [isNil |-> FALSE, md |-> procs[Reader].md])
    /\ UNCHANGED <<store, now, overlap, acq, run, boot>>

\* the next read of the reader's Load: the metadata node, then the data node
\* and the comparison of its digest with the hash read before
LoadStep ==
    /\ procs[Reader].pc \in {"getMD", "get"}
    /\ IF procs[Reader].pc = "getMD"
       THEN \E m \in {getMD(store, storageKeyMD(procs[Reader].key), ZeroMetadata)} :
               IF ~m.ok
               THEN /\ last' = Returned(procs[Reader].key, "store", NilBytes, NilMD)
                    /\ procs' = [procs EXCEPT ![Reader] = IdleLoad]
               ELSE /\ procs' = [procs EXCEPT ![Reader].pc = "get", ![Reader].md = m.m]
                    /\ UNCHANGED last
       ELSE \E d \in {ExecOp(get(storageKey(procs[Reader].key)), store, EmptyEnv)} :
               /\ procs' = [procs EXCEPT ![Reader] = IdleLoad]
               /\ last' =
                    IF ~d.ok
                    THEN Returned(procs[Reader].key, "store", NilBytes, NilMD)
                    ELSE IF sha1Sum(d.env.valPrev) # procs[Reader].md.Hash
                    THEN Returned(procs[Reader].key, "FailedChecksum", NilBytes,
                                  [isNil |-> FALSE, md |-> procs[Reader].md])
                    ELSE Returned(procs[Reader].key, "nil", Bytes(d.env.valPrev),
                                  [isNil |-> FALSE, md |-> procs[Reader].md])
    /\ UNCHANGED <<store, now, overlap, acq, run, boot>>

\* all calls are on one key: with no failure of the store and no directory in
\* the way of the key no commit of a Store fails, and no rollback runs
NextLoadConc ==
    \/ \E p \in Procs, v \in Payloads : BeginStore(p, RaceKey, v)
    \/ \E p \in Procs : CommitStep(p)
    \/ BeginLoad(RaceKey)
    \/ LoadStep

SpecLoadConc == InitLoadConc /\ [][NextLoadConc]_vars

(***************************************************************************)
(* Properties of the storage service.                                      *)
(***************************************************************************)
DataNode(st, key) == st[storageKey(key)]

MDNode(st, key) == st[storageKeyMD(key)]

\* the data node of key holds the base64 text of payload v
HoldsPayload(st, key, v) ==
    /\ DataNode(st, key).kind = "file"
    /\ DataNode(st, key).value.enc = "raw"
    /\ DataNode(st, key).value.txt = EncodeToString(v)

\* both nodes of key are value nodes and the recorded hash is not the digest
\* of the payload in the data node
DataMismatch(st, key) ==
    /\ MDNode(st, key).kind = "file"
    /\ MDNode(st, key).value.enc = "Metadata"
    /\ DataNode(st, key).kind = "file"
    /\ DataNode(st, key).value.enc = "raw"
    /\ DecodeString(DataNode(st, key).value.txt).ok
    /\ sha1Sum(DecodeString(DataNode(st, key).value.txt).bytes)
         # MDNode(st, key).value.txt.Hash

\* C1: right after a Store(k, v) that returned nil, whatever was stored on k
\* before, Load(k) returns exactly v and Metadata(k) reports Hash = digest(v),
\* Size = length(v) and Path = k.
C1_StoreThenLoad ==
    (last.op = "Store" /\ last.err = "nil") =>
        LET l == LoadCall(store, last.key, NoFail)
            m == MetadataCall(store, last.key, NoFail)
        IN  /\ l.err = "nil"
            /\ l.val.bytes = last.arg
            /\ m.err = "nil"
            /\ ~m.md.isNil
            /\ m.md.md.Hash = sha1Sum(last.arg)
            /\ m.md.md.Size = Len(last.arg)
            /\ m.md.md.Path = last.key

\* a Store that overwrote an existing key with a non-empty payload has returned
C1_Witness ==
    /\ last.op = "Store"
    /\ last.err = "nil"
    /\ last.ex
    /\ last.arg # <<>>
    /\ HoldsPayload(store, last.key, last.arg)

\* C2: a Store on a key that holds payload v1 (Load returns v1) whose metadata
\* write, the fourth commit, fails and whose rollback succeeds leaves the data
\* node holding v1, and Load(k) returns v1 again.
C2_RollbackRestoresPayload ==
    [][LET k == last'.key
           before == LoadCall(store, k, NoFail)
           after == LoadCall(store', k, NoFail)
       IN  (/\ last'.op = "Store"
            /\ last'.ex
            /\ last'.failedAt = 4
            /\ last'.rbFailed = {}
            /\ before.err = "nil")
           => (/\ HoldsPayload(store', k, before.val.bytes)
               /\ after.err = "nil"
               /\ after.val.bytes = before.val.bytes)]_vars

\* C3: a Store on a key without metadata node whose metadata write, the second
\* commit, fails and whose rollback succeeds leaves neither the data node nor
\* the metadata node of the key, and Load(k) returns NotExist.
C3_NewKeyRollbackDeletes ==
    (/\ last.op = "Store"
     /\ ~last.ex
     /\ last.failedAt = 2
     /\ last.rbFailed = {})
    => (/\ DataNode(store, last.key).kind = "none"
        /\ MDNode(store, last.key).kind = "none"
        /\ LoadCall(store, last.key, NoFail).err = "NotExist")

\* a Store of a new key has failed at its metadata write and rolled back
C3_Witness ==
    /\ last.op = "Store"
    /\ ~last.ex
    /\ last.failedAt = 2
    /\ last.rbFailed = {}
    /\ last.err = "pipeline"
    /\ last.inj

\* C4: a Load(k) that the store does not fail, on a key whose data node holds
\* a payload whose digest is not the hash in its metadata node, returns
\* FailedChecksum for k and no value.
C4_MismatchIsFailedChecksum ==
    (last.op = "Load" /\ ~last.inj /\ DataMismatch(store, last.key)) =>
        (last.err = "FailedChecksum" /\ last.errKey = last.key /\ last.val = NilBytes)

\* a Load has met a data node that does not match its metadata
C4_Witness ==
    /\ last.op = "Load"
    /\ ~last.inj
    /\ DataMismatch(store, last.key)
    /\ DataNode(store, last.key).value.txt # <<>>
    /\ last.err = "FailedChecksum"

LockNode(st, key) == st[lockPath(key)]

\* the lock node of key holds the record {tok, t}
HoldsLock(st, key, tok, t) ==
    /\ LockNode(st, key).kind = "file"
    /\ LockNode(st, key).value.enc = "Lock"
    /\ LockNode(st, key).value.txt = Lock(tok, t, key)

\* the acquire read a lock of another token
HeldByOther == last.held.Token # "" /\ last.held.Token # last.tok

\* no call of a concurrent client on key is in progress
Quiescent(key) == \A p \in Procs : ~Busy(p, key)

\* both nodes of key are value nodes and the recorded hash is the digest of
\* the payload in the data node
Matches(st, key) ==
    /\ DecodeString(DataNode(st, key).value.txt).ok
    /\ sha1Sum(DecodeString(DataNode(st, key).value.txt).bytes)
         = MDNode(st, key).value.txt.Hash

BothNodes(st, key) ==
    /\ DataNode(st, key).kind = "file"
    /\ MDNode(st, key).kind = "file"

C8_SecondAcquireFails ==
    (/\ last.op = "lock"
     /\ ~last.inj
     /\ HeldByOther
     /\ now - last.held.Obtained < LockTimeout)
    => (/\ last.err = "locked"
        /\ HoldsLock(store, last.key, last.held.Token, last.held.Obtained))

\* B was refused the lock A holds
C8_Witness ==
    /\ last.op = "lock"
    /\ last.tok = "B"
    /\ last.held.Token = "A"
    /\ last.err = "locked"
    /\ HoldsLock(store, last.key, "A", last.held.Obtained)

\* C9: an acquire by the token that holds the lock succeeds, whatever the age
\* of the lock, and rewrites the record with the current time; from then on
\* an acquire by another token fails while less than the timeout has passed
\* since that time.
C9_SameTokenExtends ==
    /\ (last.op = "lock" /\ ~last.inj /\ last.held.Token = last.tok)
          => (last.err = "nil" /\ HoldsLock(store, last.key, last.tok, now))
    /\ (/\ last.op = "lock"
        /\ ~last.inj
        /\ HeldByOther
        /\ now - last.held.Obtained < LockTimeout)
          => last.err = "locked"

\* A has extended a lock it obtained earlier
C9_Witness ==
    /\ last.op = "lock"
    /\ last.err = "nil"
    /\ last.held.Token = last.tok
    /\ last.held.Obtained < now
    /\ HoldsLock(store, last.key, last.tok, now)

\* C10: an acquire that the store does not fail and that finds the lock held
\* by another token with an age of the timeout or more succeeds and overwrites
\* the record with its own token and the current time.
C10_TakeoverAtTimeout ==
    (/\ last.op = "lock"
     /\ ~last.inj
     /\ HeldByOther
     /\ now - last.held.Obtained >= LockTimeout)
    => (last.err = "nil" /\ HoldsLock(store, last.key, last.tok, now))

\* B took the lock of A over at the very instant it expired
C10_Witness ==
    /\ last.op = "lock"
    /\ last.tok = "B"
    /\ last.held.Token = "A"
    /\ now - last.held.Obtained = LockTimeout
    /\ last.err = "nil"
    /\ HoldsLock(store, last.key, "B", now)

\* the lock record of key: the record in its lock node, or none
RecordOf(st, key) ==
    IF LockNode(st, key).kind = "file" /\ LockNode(st, key).value.enc = "Lock"
    THEN LockNode(st, key).value.txt
    ELSE ZeroLock

\* the key space with the lock of key released
Released(st, key) == release(st, key, "none").st

\* C11: for distinct keys A and B, an acquire of A returns what it would
\* return with the lock of B released, and an acquire or release of A leaves
\* the lock record of B as it was.
C11_LocksIndependent ==
    [][(last'.op \in {"lock", "Unlock"} /\ ~last'.inj) =>
          \A k2 \in Keys \ {last'.key} :
              /\ RecordOf(store', k2) = RecordOf(store, k2)
              /\ last'.op = "lock" =>
                    last'.err = acquire(Released(store, k2), last'.tok, last'.key,
                                        now, "none").err]_vars

\* C12: a client that read the lock of k as absent or expired while the other
\* client, with another token, had read it so too and not yet written,
\* succeeds with its write whatever the other wrote meanwhile: its call
\* returns nil and the record holds its token and the time of its write, so
\* that both calls return nil and the record is that of the last writer.
C12_BothAcquireLastWriterWins ==
    [][\A p \in Procs :
          (acq[p].pc = "write" /\ acq[p].raced /\ acq'[p] # acq[p]) =>
              /\ acq'[p].pc = "idle"
              /\ acq'[p].err = "nil"
              /\ HoldsLock(store', acq[p].key, TokenOf(p), now)
              /\ (acq[Other(p)].pc = "idle" /\ acq[Other(p)].raced)
                    => acq[Other(p)].err = "nil"]_vars

\* both clients raced on the key, both calls returned nil, and the record
\* is the one of A, who wrote last over the record of B
C12_Witness ==
    /\ \A p \in Procs : acq[p].pc = "idle" /\ acq[p].raced /\ acq[p].err = "nil"
    /\ acq["p1"].key = acq["p2"].key
    /\ RecordOf(store, RaceKey).Token = "A"

\* C13: an Unlock(k) that the store does not fail, made while a lock record
\* of k exists, returns nil and leaves no lock record of k, whichever token
\* the record holds and whichever process calls.
C13_UnlockIgnoresToken ==
    [][(/\ last'.op = "Unlock"
        /\ ~last'.inj
        /\ LockNode(store, last'.key).kind = "file")
       => (/\ last'.err = "nil"
           /\ LockNode(store', last'.key).kind = "none"
           /\ RecordOf(store', last'.key) = ZeroLock)]_vars

\* the process of token B has released the lock that token A held
C13_Witness ==
    /\ last.op = "Unlock"
    /\ last.tok = "B"
    /\ last.held.Token = "A"
    /\ last.err = "nil"
    /\ LockNode(store, last.key).kind = "none"

\* C14 as claimed: a Lock call that found the lock held by another token and
\* not expired has returned the 'already locked' error from that one run of
\* the acquire closure, without running it again.
C14_RefusedLockReturnsAtOnce ==
    \A p \in Procs :
        acq[p].refused =>
            (acq[p].pc = "idle" /\ acq[p].err = "locked" /\ ~acq[p].retried)

\* C14 as amended: so it is on a service without backoff; on a service with
\* backoff the closure is run again, and the call returns the 'already
\* locked' error only once the time of the backoff has passed.
C14_RefusedLockReturnsPerBackoff ==
    \A p \in Procs :
        /\ (acq[p].refused /\ acq[p].noBackoff) =>
              (acq[p].pc = "idle" /\ acq[p].err = "locked" /\ ~acq[p].retried)
        /\ (/\ acq[p].refused
            /\ ~acq[p].noBackoff
            /\ acq[p].pc = "idle"
            /\ acq[p].err = "locked")
              => now - acq[p].start >= MaxElapsedTime

\* B, without backoff, was refused once and got the error; A, with backoff,
\* was refused, ran the closure again and got the lock
C14_Witness ==
    /\ acq["p2"].pc = "idle"
    /\ acq["p2"].noBackoff
    /\ acq["p2"].refused
    /\ acq["p2"].err = "locked"
    /\ acq["p1"].pc = "idle"
    /\ ~acq["p1"].noBackoff
    /\ acq["p1"].refused
    /\ acq["p1"].retried
    /\ acq["p1"].err = "nil"

(***************************************************************************)
(* Properties of pipeline.  Indices count from 1: commit i of the code is  *)
(* commit i + 1 here.                                                      *)
(***************************************************************************)
\* the indices 1, 2, .., n
Asc(n) == [j \in 1..n |-> j]

\* the indices n, n - 1, .., 1
Desc(n) == [j \in 1..n |-> n + 1 - j]

Min(a, b) == IF a < b THEN a ELSE b

\* the first commit from idx on that fails when the commits run one after
\* another on st, each on the store the one before left; 0: none fails
RECURSIVE FirstFailure(_, _, _, _)
FirstFailure(idx, commits, st, f) ==
    IF idx > Len(commits) THEN 0
    ELSE IF f.c = idx /\ commits[idx].op # "noop" THEN idx
    ELSE IF ~ExecOp(commits[idx], st, EmptyEnv).ok THEN idx
    ELSE FirstFailure(idx + 1, commits, ExecOp(commits[idx], st, EmptyEnv).st, f)

\* the first failing commit of the run
RunFailure == FirstFailure(1, run.commits, EmptyStore, run.f)

\* C15: the commits of a run were started in the order of the list, one after
\* another, up to and including the first one that fails; none after it ran.
C15_CommitsInOrderUntilFailure ==
    run.done =>
        /\ run.res.ran = Asc(IF RunFailure = 0 THEN Len(run.commits) ELSE RunFailure)
        /\ run.res.failedAt = RunFailure

\* the second of three commits failed and the third did not run
C15_Witness ==
    /\ run.done
    /\ Len(run.commits) = 3
    /\ RunFailure = 2
    /\ run.res.ran = <<1, 2>>

\* C16: a run in which every commit succeeds, the run of the empty list
\* included, returns nil and invokes no rollback, whatever the rollbacks are.
C16_SuccessRunsNoRollback ==
    (run.done /\ RunFailure = 0) =>
        /\ run.res.err = NilError
        /\ run.res.rbRun = <<>>
        /\ run.res.rbFailed = {}

\* the empty list of commits ran beside a full list of rollbacks
C16_Witness ==
    /\ run.done
    /\ run.commits = <<>>
    /\ Len(run.rollbacks) = MaxOps
    /\ run.res.err = NilError

\* C17: when commit i fails and the rollback list has an entry for every
\* index below i, the rollbacks i - 1, i - 2, .., 1 are invoked in that order,
\* and neither the rollback at i nor one above it.
C17_RollbacksDescend ==
    (run.done /\ RunFailure >= 1 /\ Len(run.rollbacks) >= RunFailure - 1) =>
        run.res.rbRun = Desc(RunFailure - 1)

\* the third commit failed beside three rollbacks: 2 and 1 ran, 3 did not
C17_Witness ==
    /\ run.done
    /\ RunFailure = 3
    /\ Len(run.rollbacks) = 3
    /\ run.res.rbRun = <<2, 1>>

\* C18: when commit i fails and the rollback list has fewer than i - 1
\* entries, the missing indices are skipped without a further error, the
\* rollbacks the list has are invoked from the last one down to 1, and the
\* error returned is that of the commit.
C18_ShortRollbackListSkips ==
    (run.done /\ RunFailure >= 1 /\ Len(run.rollbacks) < RunFailure - 1) =>
        /\ run.res.rbRun = Desc(Len(run.rollbacks))
        /\ run.res.err # NilError
        /\ run.res.err[1] = CommitError(RunFailure)[1]
        /\ Len(run.res.err) = 1 + Cardinality(run.res.rbFailed)

\* the third commit failed beside a single rollback, which ran
C18_Witness ==
    /\ run.done
    /\ RunFailure = 3
    /\ Len(run.rollbacks) = 1
    /\ run.res.rbRun = <<1>>
    /\ run.res.err = CommitError(3)

\* C19: when rollbacks fail, every rollback of the list below the failed
\* commit is invoked all the same, and the error returned holds the error of
\* the commit and that of each failed rollback.
C19_RollbackErrorsKept ==
    (run.done /\ run.res.rbFailed # {}) =>
        /\ run.res.rbRun = Desc(Min(RunFailure - 1, Len(run.rollbacks)))
        /\ run.res.err[1] = CommitError(RunFailure)[1]
        /\ Len(run.res.err) = 1 + Cardinality(run.res.rbFailed)
        /\ {run.res.err[j] : j \in 2..Len(run.res.err)}
             = {RollbackError(i) : i \in run.res.rbFailed}

\* rollback 2 failed, rollback 1 ran after it and failed too
C19_Witness ==
    /\ run.done
    /\ run.res.rbRun = <<2, 1>>
    /\ run.res.rbFailed = {1, 2}
    /\ run.res.err = <<CommitError(3)[1], RollbackError(2), RollbackError(1)>>

\* C20: a run returns nil only if every commit succeeded: when a commit
\* fails the error is not nil, also when every rollback succeeded.
C20_NilOnlyIfAllCommitsSucceed ==
    run.done => (run.res.err = NilError <=> RunFailure = 0)

\* a commit failed, its rollbacks ran and all succeeded
C20_Witness ==
    /\ run.done
    /\ RunFailure = 3
    /\ run.res.rbRun = <<2, 1>>
    /\ run.res.rbFailed = {}
    /\ run.res.err # NilError

(***************************************************************************)
(* Properties of Metadata on a directory.                                  *)
(***************************************************************************)
\* the keys at or below directory d that have a metadata record
RecordedUnder(st, d) ==
    {k \in TreeKeys : IsPrefix(d, k) /\ MDNode(st, k).kind = "file"}

RECURSIVE TotalSize(_, _)
TotalSize(st, K) ==
    IF K = {} THEN 0
    ELSE LET k == CHOOSE x \in K : TRUE
         IN  MDNode(st, k).value.txt.Size + TotalSize(st, K \ {k})

\* the latest timestamp among the records of K; the zero time when K is empty
LatestTimestamp(st, K) ==
    IF K = {} THEN ZeroTime
    ELSE CHOOSE t \in {MDNode(st, k).value.txt.Timestamp : k \in K} :
            \A k \in K : MDNode(st, k).value.txt.Timestamp <= t

Subtree(st, key) ==
    {q \in DOMAIN st : IsPrefix(storageKey(key), q) /\ st[q].kind # "none"}

\* the text of node path q with the storage prefix stripped
Stripped(q) == Str(SubSeq(q, Len(KeyPrefix) + 1, Len(q)))

\* the text of the directory node q lies in, the storage prefix stripped
ParentDir(q) == Str(SubSeq(q, Len(KeyPrefix) + 1, Len(q) - 1))

Range(s) == {s[i] : i \in 1..Len(s)}

\* List(key, filters) found its root and no store failure was injected
Listed(filters) ==
    /\ last.op = "List"
    /\ ~last.inj
    /\ last.filters = filters
    /\ EtcdGet(store, storageKey(last.key)).code = "ok"

\* C22: List(key, FilterExactPrefix(p, cut)) returns exactly the terminal
\* nodes under key whose parent directory, cut trimmed, is p, written with or
\* without the trailing separator: the direct children of p are in, deeper
\* descendants and directories are out.
C22_ExactPrefixListsDirectChildren ==
    \A flt \in {f \in Filters : f.f = "FilterExactPrefix"} :
        Listed(<<flt>>) =>
            /\ last.err = "nil"
            /\ Range(last.out)
                 = {Stripped(q) : q \in
                      {q \in Subtree(store, last.key) :
                          /\ store[q].kind = "file"
                          /\ \/ flt.prefix = ParentDir(q)
                             \/ flt.prefix = ParentDir(q) \o <<Sep>>}}
            /\ Len(last.out) = Cardinality(Range(last.out))

\* List("", FilterExactPrefix("/a", cut)) with a/b and a/c/d stored: a/b is
\* returned, the directory a/c and the deeper a/c/d are not
C22_Witness ==
    /\ Listed(<<FilterExactPrefix(Str(<<"a">>), Str(KeyPrefix))>>)
    /\ last.key = <<>>
    /\ DataNode(store, <<"a", "b">>).kind = "file"
    /\ DataNode(store, <<"a", "c">>).kind = "dir"
    /\ DataNode(store, <<"a", "c", "d">>).kind = "file"
    /\ last.out = <<Str(<<"a", "b">>)>>

\* the lists that hold the filters of fs in some order
Orderings(fs) == {gs \in FilterLists : Len(gs) = Len(fs) /\ Range(gs) = Range(fs)}

\* C23: whatever the nodes of the subtree and whatever the filters, List
\* returns exactly the nodes that every filter keeps, and returns the same
\* for every order in which the filters are passed.
C23_FiltersConjoinInAnyOrder ==
    (last.op = "List" /\ ~last.inj) =>
        LET nodes == list(store, storageKey(last.key), last.ord, FALSE).nodes
            kept == SelectSeq(nodes,
                              LAMBDA n : \A i \in 1..Len(last.filters) :
                                            Keeps(last.filters[i], n))
        IN  /\ last.err = "nil"
            /\ last.out
                 = [i \in 1..Len(kept) |-> TrimPrefix(kept[i].Key, Str(KeyPrefix))]
            /\ \A gs \in Orderings(last.filters) :
                  ListCall(store, last.key, gs, last.ord, FALSE).out = last.out

\* two filters that each drop a node the other keeps: the directory a/c goes
\* by the first, the terminal node a/b by the second, a/c/d stays
C23_Witness ==
    /\ last.op = "List"
    /\ ~last.inj
    /\ last.key = <<"a">>
    /\ last.filters
         = <<FilterRemoveDirectories, FilterPrefix(Str(<<"a", "c">>), Str(KeyPrefix))>>
    /\ DataNode(store, <<"a", "b">>).kind = "file"
    /\ DataNode(store, <<"a", "c">>).kind = "dir"
    /\ last.out = <<Str(<<"a", "c", "d">>)>>

\* C24: List(key) without filters returns, the storage prefix stripped, the
\* path of every node stored in the subtree rooted at key, each once, and no
\* path outside it; when the root is not found it returns the empty list and
\* no error.
C24_ListReturnsSubtree ==
    (last.op = "List" /\ ~last.inj /\ last.filters = <<>>) =>
        LET code == EtcdGet(store, storageKey(last.key)).code
        IN  /\ code = "ok" =>
                /\ last.err = "nil"
                /\ Range(last.out) = {Stripped(q) : q \in Subtree(store, last.key)}
                /\ Len(last.out) = Cardinality(Subtree(store, last.key))
            /\ code = "KeyNotFound" =>
                /\ last.err = "nil"
                /\ last.out = <<>>

\* List("a/c") returned a/c and a/c/d and left out a/b, which is stored
C24_Witness ==
    /\ last.op = "List"
    /\ ~last.inj
    /\ last.filters = <<>>
    /\ last.key = <<"a", "c">>
    /\ DataNode(store, <<"a", "b">>).kind = "file"
    /\ Range(last.out) = {Str(<<"a", "c">>), Str(<<"a", "c", "d">>)}

(***************************************************************************)
(* Properties of the storage calls with respect to the locks.              *)
(***************************************************************************)
\* the nodes of the lock namespace
LockRecords(st) == [q \in {q \in DOMAIN st : IsPrefix(lockKey, q)} |-> st[q]]

\* the key space with the lock namespace emptied
WithoutLocks(st) ==
    [q \in DOMAIN st |-> IF IsPrefix(lockKey, q) THEN Absent ELSE st[q]]

\* s1 and s2 hold the same data and metadata nodes
SameStorage(s1, s2) == \A q \in DOMAIN s1 : ~IsPrefix(lockKey, q) => s1[q] = s2[q]

C26_RetriedCallReturns ==
    /\ [](run.tries <= MaxElapsedTime /\ run.spent <= MaxElapsedTime + 1)
    /\ (run.pc \in {"commit", "rollback"}) ~> (run.pc = "done")
    /\ [](run.pc = "done" /\ run.failedAt # 0 => run.err # NilError)

\* Delete on a key that is not there: its first commit failed on every
\* attempt the backoff allowed, and the call returned the error
C26_Witness ==
    /\ run.pc = "done"
    /\ run.commits = DeleteCommits(RetryKey)
    /\ run.failedAt = 1
    /\ run.spent = MaxElapsedTime + 1
    /\ run.err # NilError

C28_NamespacesDisjoint ==
    [][last'.op \in {"Store", "Delete"} =>
          \A k2 \in AliasKeys \ {last'.key} :
              /\ storageKey(last'.key) # storageKeyMD(k2)
              /\ storageKey(last'.key) # lockPath(k2)
              /\ MDNode(store', k2) = MDNode(store, k2)
              /\ LockNode(store', k2) = LockNode(store, k2)]_vars

(***************************************************************************)
(* Properties of the Caddyfile loader.                                     *)
(***************************************************************************)
\* the loader returns in this step, having met no injected store failure
LoaderReturns == boot.pc # "done" /\ boot'.pc = "done" /\ ~boot'.inj

\* the loader returns nothing and leaves the store alone
ReturnsNothing ==
    /\ boot'.body = NilBytes
    /\ boot'.from = ""
    /\ boot'.err = "nil"
    /\ store' = store

\* the loader returns the content found in the store and leaves the store alone
ReturnsStored(content) ==
    /\ boot'.body = Bytes(content)
    /\ boot'.from = "etcd"
    /\ boot'.err = "nil"
    /\ store' = store

\* the loader returns the bootstrap file's content, the node holds it and
\* the lock is released
ReturnsFileWritten ==
    /\ boot'.body = Bytes(boot'.caddyFile)
    /\ boot'.from = "file"
    /\ boot'.err = "nil"
    /\ HoldsPayload(store', CaddyfileKey, boot'.caddyFile)
    /\ LockNode(store', CaddyfileKey).kind = "none"

\* the loader returns the bootstrap file's content and leaves the store alone
ReturnsFileUnwritten ==
    /\ boot'.body = Bytes(boot'.caddyFile)
    /\ boot'.from = "file"
    /\ boot'.err = "nil"
    /\ store' = store

\* C29 as stated: the loader returns the content stored at <prefix>/caddyfile
\* when it is not empty, leaving the store unchanged; otherwise the content
\* of the configured bootstrap file, which it also writes to
\* <prefix>/caddyfile under the lock "caddyfile"; otherwise nothing.  With
\* loading disabled it returns nothing and writes nothing.
C29_LoaderPriority ==
    [][LoaderReturns =>
          LET content == readCaddyfile(store, "none").bytes
          IN  IF boot'.disabled THEN ReturnsNothing
              ELSE IF boot.pc = "idle" /\ Len(content) > 0 THEN ReturnsStored(content)
              ELSE IF Len(boot'.caddyFile) > 0 THEN ReturnsFileWritten
              ELSE ReturnsNothing]_vars

\* C29, amended: as above, but the bootstrap file's content is written only
\* when Lock("caddyfile") succeeds; when Lock gives up, the lock held by
\* another client for the whole backoff, the loader returns the file's
\* content and writes nothing.
C29_LoaderPriorityLockPermitting ==
    [][LoaderReturns =>
          LET content == readCaddyfile(store, "none").bytes
              free == acquire(store, LoaderToken, CaddyfileKey, now, "none").err = "nil"
          IN  IF boot'.disabled THEN ReturnsNothing
              ELSE IF boot.pc = "idle" /\ Len(content) > 0 THEN ReturnsStored(content)
              ELSE IF Len(boot'.caddyFile) > 0 THEN
                  IF free THEN ReturnsFileWritten /\ boot'.wrote
                  ELSE ReturnsFileUnwritten /\ ~boot'.wrote
              ELSE ReturnsNothing]_vars

\* the loader has returned the bootstrap file's content without writing it:
\* the node is empty and the lock is another client's
C29_Witness ==
    /\ boot.pc = "done"
    /\ ~boot.inj
    /\ boot.body = Bytes(boot.caddyFile)
    /\ Len(boot.caddyFile) > 0
    /\ boot.from = "file"
    /\ ~boot.wrote
    /\ DataNode(store, CaddyfileKey).kind = "none"
    /\ RecordOf(store, CaddyfileKey).Token = OtherToken

\* C30: a commit that fails on an attempt and succeeds on a later attempt
\* within the bound of the retry counts as a success: pipeline invokes no
\* rollback for it and goes on with the next commit, or returns nil after
\* the last.
C30_RecoveredCommitCounts ==
    [][(run.pc = "commit" /\ run.tries > 0 /\ run'.attempt = "ok") =>
          /\ run'.failedAt = 0
          /\ run'.rbRun = <<>>
          /\ run'.err = NilError
          /\ IF run.idx < Len(run.commits)
             THEN run'.pc = "commit" /\ run'.idx = run.idx + 1
             ELSE run'.pc = "done"]_vars

\* the first commit of Store failed an attempt and then succeeded; the call went
\* on to the metadata and returned nil
C30_Witness ==
    /\ run.pc = "done"
    /\ 1 \in run.recovered
    /\ run.ran = <<1, 2>>
    /\ run.rbRun = <<>>
    /\ run.err = NilError
    /\ HoldsPayload(store, RetryKey, RetryPayload)
    /\ MDNode(store, RetryKey).kind = "file"

(***************************************************************************)
(* Properties of the failures of Store, Delete, Unlock and Load.           *)
(***************************************************************************)
\* C31: when Store(k, v2) runs on an existing key and its data write, the
\* third commit, fails, the rollbacks that run are those of the two read
\* steps, both no-ops: Store returns an error and the data node and the
\* metadata node of k keep their contents.
C31_DataWriteFailureKeepsBoth ==
    [][(last'.op = "Store" /\ last'.ex /\ last'.failedAt = 3) =>
          /\ last'.err # "nil"
          /\ DataNode(store', last'.key) = DataNode(store, last'.key)
          /\ MDNode(store', last'.key) = MDNode(store, last'.key)
          /\ store' = store
          /\ \A i \in {1, 2} : StoreRollbacks(last'.key, TRUE)[i] = noop
          /\ \A f \in FailPlans :
                \A c \in {StoreCall(store, last'.key, last'.arg, now, f)} :
                   (c.ok /\ c.ex /\ c.res.failedAt = 3) =>
                      /\ c.res.ran = <<1, 2, 3>>
                      /\ c.res.rbRun = <<2, 1>>
                      /\ c.res.rbFailed = {}]_vars

\* a Store of a new payload on a stored key failed at its data write; the key
\* still holds the payload and the record it had
C31_Witness ==
    /\ last.op = "Store"
    /\ last.ex
    /\ last.failedAt = 3
    /\ last.err = "pipeline"
    /\ \E v \in Payloads :
          /\ v # <<>>
          /\ v # last.arg
          /\ HoldsPayload(store, last.key, v)
          /\ MDNode(store, last.key).kind = "file"
          /\ MDNode(store, last.key).value.enc = "Metadata"
          /\ MDNode(store, last.key).value.txt.Hash = sha1Sum(v)

\* C32: Delete(k) removes the data node first and the metadata node second
\* and compensates nothing: when the deletion of the metadata node fails
\* after the data node was removed, Delete returns an error, the data node
\* stays deleted and the metadata node remains as it was.
C32_DeleteLeavesMetadataBehind ==
    [][(last'.op = "Delete" /\ last'.failedAt = 2) =>
          /\ last'.err # "nil"
          /\ DataNode(store, last'.key).kind = "file"
          /\ DataNode(store', last'.key) = Absent
          /\ MDNode(store', last'.key) = MDNode(store, last'.key)
          /\ \A q \in DOMAIN store :
                q # storageKey(last'.key) => store'[q] = store[q]]_vars

\* a Delete of a stored key failed at the metadata node: the payload is gone
\* and the record is still there
C32_Witness ==
    /\ last.op = "Delete"
    /\ last.failedAt = 2
    /\ last.err = "pipeline"
    /\ DataNode(store, last.key).kind = "none"
    /\ MDNode(store, last.key).kind = "file"
    /\ MDNode(store, last.key).value.enc = "Metadata"

\* C33: Delete(k) while the data node of k is absent returns an error at its
\* first step and does not attempt the metadata node: the store is left as
\* it was, a metadata node of k included, so that the same Delete(k) meets
\* the same state again and never removes that node.
C33_DeleteOfAbsentDataStopsAtFirstStep ==
    [][(last'.op = "Delete" /\ DataNode(store, last'.key).kind = "none") =>
          /\ last'.failedAt = 1
          /\ last'.err # "nil"
          /\ MDNode(store', last'.key) = MDNode(store, last'.key)
          /\ DataNode(store', last'.key).kind = "none"
          /\ store' = store]_vars

\* a Delete the store did not fail returned an error at its first step, and
\* the metadata record of the key is still there with no data node
C33_Witness ==
    /\ last.op = "Delete"
    /\ ~last.inj
    /\ last.failedAt = 1
    /\ last.err = "pipeline"
    /\ DataNode(store, last.key).kind = "none"
    /\ MDNode(store, last.key).kind = "file"
    /\ MDNode(store, last.key).value.enc = "Metadata"

\* C34: Unlock(k) while no lock record of k exists is no special case: every
\* run of the release closure leaves the store unchanged and fails with the
\* error of the delete, which is the error Unlock returns.
C34_UnlockOfMissingLockFails ==
    [][(last'.op = "Unlock" /\ LockNode(store, last'.key).kind = "none") =>
          /\ last'.err = "store"
          /\ last'.held = ZeroLock
          /\ store' = store]_vars

\* an Unlock the store did not fail returned the error of the delete: the
\* store answered that the key has no lock record, and it has none now
C34_Witness ==
    /\ last.op = "Unlock"
    /\ ~last.inj
    /\ last.err = "store"
    /\ last.held = ZeroLock
    /\ EtcdGet(store, lockPath(last.key)).code = "KeyNotFound"

\* C35: when the existence check on the metadata node of k fails with an
\* error of the store other than 'key not found', Store(k, v) returns an
\* error and writes nothing: the data and metadata nodes of every key are
\* what they were.
C35_FailedExistenceCheckWritesNothing ==
    [][last'.op = "Store" =>
          \A e \in {exists(store, storageKeyMD(last'.key))} :
             /\ ~e.ok => last'.err = "store"
             /\ last'.err = "store" =>
                   /\ last'.failedAt = 0
                   /\ \A k \in Keys :
                         /\ DataNode(store', k) = DataNode(store, k)
                         /\ MDNode(store', k) = MDNode(store, k)
                   /\ store' = store]_vars

\* a Store of another payload on a stored key returned the error of the
\* existence check; the key holds the payload and the record it had
C35_Witness ==
    /\ last.op = "Store"
    /\ last.err = "store"
    /\ \E v \in Payloads :
          /\ v # last.arg
          /\ HoldsPayload(store, last.key, v)
          /\ MDNode(store, last.key).kind = "file"
          /\ MDNode(store, last.key).value.enc = "Metadata"
          /\ MDNode(store, last.key).value.txt.Hash = sha1Sum(v)

\* C36: Load(k) while the metadata node of k holds a record and the data
\* node of k is absent takes the missing data for the empty payload: it
\* returns FailedChecksum, not NotExist, unless the recorded hash is the
\* digest of the empty payload, and then it returns the empty payload.
C36_MissingDataIsEmptyPayload ==
    [][(/\ last'.op = "Load"
        /\ ~last'.inj
        /\ MDNode(store, last'.key).kind = "file"
        /\ MDNode(store, last'.key).value.enc = "Metadata"
        /\ EtcdGet(store, storageKey(last'.key)).code = "KeyNotFound")
       => IF MDNode(store, last'.key).value.txt.Hash = sha1Sum(<<>>)
          THEN /\ last'.err = "nil"
               /\ last'.val = Bytes(<<>>)
          ELSE /\ last'.err = "FailedChecksum"
               /\ last'.errKey = last'.key
               /\ last'.val = NilBytes]_vars

\* a Load of a key whose record is that of a payload of one byte or more and
\* whose data node is gone returned FailedChecksum
C36_Witness ==
    /\ last.op = "Load"
    /\ ~last.inj
    /\ last.err = "FailedChecksum"
    /\ EtcdGet(store, storageKey(last.key)).code = "KeyNotFound"
    /\ MDNode(store, last.key).kind = "file"
    /\ MDNode(store, last.key).value.enc = "Metadata"
    /\ MDNode(store, last.key).value.txt.Size > 0

(***************************************************************************)
(* Properties of the lock under the discipline of a mutex.                 *)
(***************************************************************************)
\* the client of token tok believes it holds the lock, taken less than the
\* lock timeout ago
HoldsYoung(tok) == acq[tok].pc = "held" /\ now - acq[tok].start < LockTimeout

\* C37: Unlock checks no ownership.  With every acquire atomic and every
\* client calling Unlock only after a Lock of its own that returned nil, an
\* Unlock removes the record in the lock node whichever token it names, the
\* record of a holder younger than the timeout included, and a Lock that then
\* finds no record succeeds beside that holder; this is how the lock comes
\* to be held by C while B, who took it over from A, holds it too.
C37_UnlockFreesLockOfAnother ==
    [][/\ last'.op = "Unlock" =>
            /\ acq[last'.tok].pc = "held"
            /\ last'.held = RecordOf(store, RaceKey)
            /\ LockNode(store, RaceKey).kind = "file" =>
                  /\ last'.err = "nil"
                  /\ LockNode(store', RaceKey).kind = "none"
            /\ \A tok \in Clients \ {last'.tok} : acq'[tok] = acq[tok]
       /\ (last'.op = "lock" /\ LockNode(store, RaceKey).kind = "none") =>
            /\ last'.err = "nil"
            /\ HoldsLock(store', RaceKey, last'.tok, now)
            /\ \A tok \in Clients \ {last'.tok} : acq'[tok] = acq[tok]]_vars

\* A took the lock and let it age past the timeout, B took it over, A's
\* Unlock removed the record of B, and C has taken the lock while B has not
\* released and B's acquisition is younger than the timeout
C37_Witness ==
    /\ acq["A"].pc = "idle"
    /\ acq["A"].held.Token = "B"
    /\ acq["B"].held.Token = "A"
    /\ HoldsYoung("B")
    /\ HoldsYoung("C")
    /\ acq["C"].held = ZeroLock
    /\ acq["C"].start >= acq["B"].start
    /\ last.op = "lock"
    /\ last.tok = "C"
    /\ last.err = "nil"
    /\ HoldsLock(store, RaceKey, "C", acq["C"].start)

(***************************************************************************)
(* Properties of a Load among concurrent Stores.                           *)
(***************************************************************************)
\* C38: in every interleaving of the reads of a Load(k) with the steps of
\* concurrent Store(k, .) calls, a Load that returns a payload returns one
\* whose digest is the hash of the metadata record this Load read; every
\* other Load returns NotExist, FailedChecksum or an error of the store and
\* no payload.
C38_LoadReturnsCheckedPayload ==
    last.op = "Load" =>
       /\ last.key = RaceKey
       /\ last.err \in {"nil", "NotExist", "FailedChecksum", "store"}
       /\ last.err = "nil" =>
             /\ ~last.md.isNil
             /\ sha1Sum(last.val.bytes) = last.md.md.Hash
       /\ last.err # "nil" => last.val = NilBytes

\* a Load has returned a payload of one byte or more while both other clients
\* are in the middle of a Store of a different payload on the same key, and
\* the two nodes of the key do not match
C38_Witness ==
    /\ last.op = "Load"
    /\ last.err = "nil"
    /\ last.val.bytes # <<>>
    /\ \A p \in Procs :
          /\ procs[p].pc = "commit"
          /\ procs[p].key = last.key
          /\ procs[p].val # last.val.bytes
          /\ procs[p].idx > 1
    /\ DataMismatch(store, last.key)

(***************************************************************************)
(* Properties of the traversal of list.                                    *)
(***************************************************************************)
\* the node of text x is the node of text y or above it
Above(x, y) == Len(x) <= Len(y) /\ SubSeq(y, 1, Len(x)) = x

\* C39: list flattens the tree it fetched depth-first in pre-order: the
\* output holds the root and every node below it exactly once, the root
\* first, every directory before all nodes of its subtree, and the nodes of
\* a subtree next to each other.
C39_WalkIsPreOrder ==
    (/\ last.op = "List"
     /\ ~last.inj
     /\ last.filters = <<>>
     /\ EtcdGet(store, storageKey(last.key)).code = "ok")
    => LET out == last.out
           n == Len(out)
       IN  /\ Range(out) = {Stripped(q) : q \in Subtree(store, last.key)}
           /\ \A i, j \in 1..n : out[i] = out[j] => i = j
           /\ out[1] = Str(last.key)
           /\ \A i, j \in 1..n : (i # j /\ Above(out[i], out[j])) => i < j
           /\ \A i, j, k \in 1..n :
                 (i < j /\ j < k /\ Above(out[i], out[k])) => Above(out[i], out[j])

\* List("a") from a store that hands out the children last name first: a,
\* then the directory a/c with a/c/d right after it, then a/b
C39_Witness ==
    /\ last.op = "List"
    /\ ~last.inj
    /\ last.filters = <<>>
    /\ last.ord = "desc"
    /\ last.out = <<Str(<<"a">>), Str(<<"a", "c">>), Str(<<"a", "c", "d">>),
                    Str(<<"a", "b">>)>>

====
